---------------------------- MODULE Spec2Model ----------------------------
(***************************************************************************)
(* Flex001: camera acquisition -> detection dispatch -> classification ->  *)
(* actuation / persistence.                                                *)
(*                                                                         *)
(* The module holds several specifications over one set of variables; each *)
(* drives one part of the program and leaves the rest untouched:           *)
(*   Spec        the four slots of the GUI: start, stop, start-all,        *)
(*               stop-all and the choice of a camera                       *)
(*   SpecHW      one HardwareTriggeredCameraWorker, its grab thread and    *)
(*               the GUI thread that starts, stops and joins it            *)
(*   SpecHWFair  SpecHW with the fairness of thread scheduling             *)
(*   SpecWorkers one worker of each kind, driven through its methods       *)
(*   SpecAgg     frames, detection dispatches and the handling of their    *)
(*               completions while the four slots run                      *)
(*   SpecRun     the started slots beside frames, queued board frames,     *)
(*               dispatches, completions, the sweep, stops, stop-all and   *)
(*               start-all                                                 *)
(*   SpecSweep   SpecRun without stop-all and start-all: a slot that was   *)
(*               stopped stays stopped                                     *)
(*   SpecMeasure one call of draw_detections on any result and settings    *)
(*   SpecFrames  the grab thread of SpecHW beside the ticks of a started   *)
(*               TimedCameraWorker: the images the two emit                *)
(*   SpecDB      the FaultDatabase: insert, query, statistics, delete,     *)
(*               clear and CSV export                                      *)
(*   SpecRelay   the RelayController: connect, disconnect and trigger      *)
(*   SpecPool    the CameraManager: initialize_cameras, cleanup_cameras    *)
(*               and a worker closing a camera of the pool                 *)
(***************************************************************************)
EXTENDS Integers, Sequences, FiniteSets, TLC

(***************************************************************************)
(* State of one HardwareTriggeredCameraWorker and its grab thread          *)
(* (camera/camera_workers.py), used by SpecHW.                             *)
(***************************************************************************)
VARIABLES
    hw_running,      \* self.running
    hw_retry_count,  \* self.retry_count
    hw_last_frame,   \* self.last_frame ("None" or a frame)
    hw_cam,          \* the pylon camera of the worker: [open, grabbing]
    hw_pc,           \* position of the grab thread inside run()
    hw_ret,          \* where _handle_error returns to in run()
    hw_main,         \* position of the GUI thread (_start_camera / _stop_camera)
    hw_signal,       \* signal emitted by the last step: "none", "frame_ready", "error_occurred"
    hw_fails,        \* history: non-timeout grab failures since the last good grab or restart
    hw_restarted,    \* history: a full restart has succeeded
    hw_fatal,        \* history: "start" or "restart" once that has failed, else "none"
    hw_frames        \* the grab buffer, the array made of it, the frame emitted last
                     \* and whether the grab result is held

hwVars == <<hw_running, hw_retry_count, hw_last_frame, hw_cam, hw_pc, hw_ret,
            hw_main, hw_signal, hw_fails, hw_restarted, hw_fatal, hw_frames>>

(***************************************************************************)
(* State of ParallelDetectorGUI (gui/main_window.py): the slots.           *)
(***************************************************************************)
VARIABLES
    nail_combo,            \* nail_camera_combos[i].currentIndex()
    board_combo,           \* board_camera_combos[i].currentIndex()
    nail_combo_enabled,    \* nail_camera_combos[i].isEnabled()
    board_combo_enabled,   \* board_camera_combos[i].isEnabled()
    nail_cameras,          \* self.nail_cameras: list of cameras in use by nail slots
    board_cameras,         \* self.board_cameras: list of cameras in use by board slots
    nail_camera_workers,   \* self.nail_camera_workers: dict slot -> TimedCameraWorker
    board_camera_workers,  \* self.board_camera_workers: dict slot -> HardwareTriggeredCameraWorker
    board_worker_threads,  \* self.board_worker_threads: the slots that have a grab thread
    run_btn,               \* what global_run_btn is connected to: "start_all" or "stop_all"
    gui_errors,            \* the calls of _handle_camera_error made by the last handler
    gui_last               \* history: the last handler, if it was the start of one slot

guiVars == <<nail_combo, board_combo, nail_combo_enabled, board_combo_enabled,
             nail_cameras, board_cameras, nail_camera_workers, board_camera_workers,
             board_worker_threads, run_btn, gui_errors, gui_last>>

(***************************************************************************)
(* State of ParallelDetectorGUI: frames, dispatches and run counters.      *)
(***************************************************************************)
VARIABLES
    nail_images,           \* self.nail_images
    board_images,          \* self.board_images
    workers,               \* self.workers: the BatchDetectionWorkers tracked
    completed_detections,  \* self.completed_detections
    total_inference_time,  \* self.total_inference_time
    board_pending,         \* the board slots with a frame_ready queued for the GUI thread
    dispatched             \* history: the dispatches started so far

aggVars == <<nail_images, board_images, workers, completed_detections,
             total_inference_time, board_pending, dispatched>>

(***************************************************************************)
(* State of ParallelDetectorGUI: results, settings, fault store and relay. *)
(***************************************************************************)
VARIABLES
    nail_results,          \* self.nail_results
    board_results,         \* self.board_results
    settings,              \* self.settings: the three measurement settings
    models,                \* self.model_manager: which of the two models is loaded
    completions,           \* detection_complete signals queued for the GUI thread
    faults,                \* the rows of table faults of self.fault_db, oldest first
    relay_connected,       \* self.relay.serial is set and open
    relay_writes,          \* the frames written to the serial port, oldest first
    agg_last               \* history: the completion handled last and what it did

outVars == <<nail_results, board_results, settings, models, completions, faults,
             relay_connected, relay_writes, agg_last>>

(***************************************************************************)
(* One worker of each kind, driven through its methods alone               *)
(* (camera/camera_workers.py), used by SpecWorkers.                        *)
(***************************************************************************)
VARIABLES
    wk,                    \* kind -> [running, timer, last_frame, camera, signal]
    wk_calls               \* history: kind -> the last two methods called on the worker

wkVars == <<wk, wk_calls>>

(***************************************************************************)
(* One call of draw_detections (utils/image_utils.py), used by SpecMeasure.*)
(***************************************************************************)
VARIABLES
    m_boxes,               \* results.boxes: the (x1, y1, x2, y2) of each box, in detection order
    m_settings,            \* settings
    m_board_label,         \* the measurement guards hold for the label passed
    m_out                  \* [called, m]: whether the call was made and what it measured

measVars == <<m_boxes, m_settings, m_board_label, m_out>>

(***************************************************************************)
(* The services used on their own: FaultDatabase (SpecDB), RelayController *)
(* (SpecRelay) and CameraManager (SpecPool).                               *)
(***************************************************************************)
VARIABLES
    db,                    \* table faults: its rows in rowid order
    db_out,                \* the last call made on the FaultDatabase and what it returned
    relay,                 \* the RelayController: serial, bytes written, last call
    pool                   \* the CameraManager: devices, available_cameras, last call

svcVars == <<db, db_out, relay, pool>>

vars == <<hwVars, guiVars, aggVars, outVars, wkVars, measVars, svcVars>>

\* What the steps of each part leave alone.
otherThanHW == <<guiVars, aggVars, outVars, wkVars, measVars, svcVars>>

otherThanGui == <<hwVars, outVars, wkVars, measVars, svcVars>>

otherThanAgg == <<hwVars, guiVars, wkVars, measVars, svcVars>>

otherThanWorkers == <<hwVars, guiVars, aggVars, outVars, measVars, svcVars>>

otherThanMeasure == <<hwVars, guiVars, aggVars, outVars, wkVars, svcVars>>

otherThanSvc == <<hwVars, guiVars, aggVars, outVars, wkVars, measVars>>

(***************************************************************************)
(* Hardware-triggered worker (camera/camera_workers.py)                    *)
(***************************************************************************)
\* self.max_retries = 3
max_retries == 3

(***************************************************************************)
(* The camera SDK, as the workers use it.  A camera is [open, grabbing].   *)
(* Open() on an open camera and StopGrabbing()/Close() on a stopped/closed *)
(* camera do nothing; Close() ends grabbing; StartGrabbing() opens the     *)
(* device when needed.  Open, the parameter writes and StartGrabbing may   *)
(* raise; which of them does is an input of the step that calls them.      *)
(***************************************************************************)
CamOpen(cam) == [cam EXCEPT !.open = TRUE]

CamClose(cam) == [open |-> FALSE, grabbing |-> FALSE]

CamStartGrabbing(cam) == [open |-> TRUE, grabbing |-> TRUE]

CamStopGrabbing(cam) == [cam EXCEPT !.grabbing = FALSE]

\* if self.camera.IsGrabbing(): self.camera.StopGrabbing()
StopGrabbingIfGrabbing(cam) == IF cam.grabbing THEN CamStopGrabbing(cam) ELSE cam

\* if self.camera.IsOpen(): self.camera.Close()
CloseIfOpen(cam) == IF cam.open THEN CamClose(cam) ELSE cam

\* What the SDK does in the try block of start(): every call returns, or Open()
\* raises, or a parameter write or StartGrabbing() raises after Open() returned.
StartOutcomes == {"ok", "open_raises", "raises_after_open"}

(***************************************************************************)
(* Image memory of a worker: grab is what the driver's grab buffer holds   *)
(* (0 once it is released), array what the array made of it holds, ref     *)
(* which of the two the frame emitted last refers to, sent what that frame *)
(* held when it was emitted, result what became of the grab result          *)
(* retrieved last: "held" from RetrieveResult() until Release() is called  *)
(* on it.                                                                  *)
(***************************************************************************)
NoFrames == [grab |-> 0, array |-> 0, ref |-> "none", sent |-> 0, result |-> "none"]

\* RetrieveResult() with a successful grab: the driver has written an image
\* into the buffer, another one than the one emitted last.
Retrieved(frames) ==
    [frames EXCEPT !.grab = IF frames.sent = 1 THEN 2 ELSE 1, !.result = "held"]

\* RetrieveResult() with a grab result whose GrabSucceeded() is false
RetrievedFailed(frames) == [frames EXCEPT !.result = "held"]

\* Mutant: the array is a view of the grab buffer.
ArrayOf_View(frames) == [frames EXCEPT !.ref = "grab"]

\* img = grab_result.Array: pypylon builds the array from a copy of the buffer
ArrayOf(frames) == [frames EXCEPT !.array = frames.grab, !.ref = "array"]

\* What the consumer reads in the frame emitted last.
Seen(frames) == IF frames.ref = "grab" THEN frames.grab ELSE frames.array

\* self.frame_ready.emit(self.cam_index, img)
Emitted(frames) == [frames EXCEPT !.sent = Seen(frames)]

\* grab_result.Release(): the buffer goes back to the driver
Released(frames) == [frames EXCEPT !.grab = 0, !.result = "released"]

\* Whether the try block of start() raises; Open() on an open camera does
\* nothing and cannot raise.
StartRaises(cam, outcome) ==
    \/ outcome = "raises_after_open"
    \/ outcome = "open_raises" /\ ~cam.open

\* The camera after the try block of start() with the given outcome.
CamAfterStart(cam, outcome) ==
    IF ~StartRaises(cam, outcome) THEN CamStartGrabbing(CamOpen(cam))
    ELSE IF outcome = "open_raises" THEN cam
    ELSE CamOpen(cam)

(***************************************************************************)
(* HardwareTriggeredCameraWorker.start(): runs on the GUI thread before    *)
(* the grab thread exists, so it is one step.                              *)
(***************************************************************************)
\* Mutant: start() leaves running set when it fails.
RunningAfterStart_Kept(raises) == TRUE

\* self.running = True at the end of the try; self.running = False in except
RunningAfterStart(raises) == ~raises

HWStart ==
    /\ hw_main = "new"
    /\ UNCHANGED otherThanHW
    /\ \E outcome \in StartOutcomes :
        /\ hw_cam' = CamAfterStart(hw_cam, outcome)
        /\ hw_running' = RunningAfterStart(StartRaises(hw_cam, outcome))
        /\ hw_signal' = IF StartRaises(hw_cam, outcome) THEN "error_occurred" ELSE "none"
        /\ hw_fatal' = IF StartRaises(hw_cam, outcome) THEN "start" ELSE hw_fatal
    /\ hw_retry_count' = 0
    /\ hw_main' = "started"
    /\ UNCHANGED <<hw_last_frame, hw_pc, hw_ret, hw_fails, hw_restarted, hw_frames>>

\* _start_camera: thread = threading.Thread(target=worker.run); thread.start()
HWSpawn ==
    /\ hw_main = "started"
    /\ UNCHANGED otherThanHW
    /\ hw_pc = "idle"
    /\ hw_pc' = "while"
    /\ hw_main' = "spawned"
    /\ hw_signal' = "none"
    /\ UNCHANGED <<hw_running, hw_retry_count, hw_last_frame, hw_cam, hw_ret, hw_fails, hw_restarted,
                   hw_fatal, hw_frames>>

(***************************************************************************)
(* run(): the grab loop, one step per statement that another thread can    *)
(* observe or disturb.                                                     *)
(***************************************************************************)
\* Mutant: a loop that never looks at the running flag.
HWLoopTest_Unconditional == TRUE

\* while self.running:
HWLoopTest == hw_running

HWWhile ==
    /\ hw_pc = "while"
    /\ UNCHANGED otherThanHW
    /\ hw_pc' = IF HWLoopTest THEN "is_grabbing" ELSE "done"
    /\ hw_signal' = "none"
    /\ UNCHANGED <<hw_running, hw_retry_count, hw_last_frame, hw_cam, hw_ret,
                   hw_main, hw_fails, hw_restarted,
                   hw_fatal, hw_frames>>

\* if self.camera.IsGrabbing():  (nothing else in the iteration when it is not)
HWIsGrabbing ==
    /\ hw_pc = "is_grabbing"
    /\ UNCHANGED otherThanHW
    /\ hw_pc' = IF hw_cam.grabbing THEN "retrieve" ELSE "while"
    /\ hw_signal' = "none"
    /\ UNCHANGED <<hw_running, hw_retry_count, hw_last_frame, hw_cam, hw_ret,
                   hw_main, hw_fails, hw_restarted,
                   hw_fatal, hw_frames>>

\* Outcomes of RetrieveResult(timeout, TimeoutHandling_ThrowException).
RetrieveOutcomes == {"succeeded", "failed", "timeout", "raises"}

\* Mutant: a timeout is handled like any other exception of the loop.
AfterTimeout_Counted == "raised_emit"

\* except pylon.TimeoutException: the branch a timeout of RetrieveResult takes
AfterTimeout == "timeout_sleep"

\* grab_result = self.camera.RetrieveResult(...)
HWRetrieve ==
    /\ hw_pc = "retrieve"
    /\ UNCHANGED otherThanHW
    /\ \E outcome \in RetrieveOutcomes :
        \* the device delivers or times out only while it is grabbing
        /\ (~hw_cam.grabbing => outcome = "raises")
        /\ hw_pc' = CASE outcome = "succeeded" -> "emit"
                      [] outcome = "failed"    -> "failed_emit"
                      [] outcome = "timeout"   -> AfterTimeout
                      [] OTHER                 -> "raised_emit"
        /\ hw_fails' = CASE outcome = "succeeded" -> 0
                         [] outcome = "timeout"   -> hw_fails
                         [] OTHER                 -> hw_fails + 1
        /\ hw_frames' = CASE outcome = "succeeded" -> Retrieved(hw_frames)
                          [] outcome = "failed"    -> RetrievedFailed(hw_frames)
                          [] OTHER                 -> hw_frames
    /\ hw_signal' = "none"
    /\ UNCHANGED <<hw_running, hw_retry_count, hw_last_frame, hw_cam, hw_ret, hw_main,
                   hw_restarted, hw_fatal>>

\* img = grab_result.Array; self.frame_ready.emit(...); self.retry_count = 0
HWEmit ==
    /\ hw_pc = "emit"
    /\ UNCHANGED otherThanHW
    /\ hw_signal' = "frame_ready"
    /\ hw_frames' = Emitted(ArrayOf(hw_frames))
    /\ hw_retry_count' = 0
    /\ hw_pc' = "release"
    /\ UNCHANGED <<hw_running, hw_last_frame, hw_cam, hw_ret, hw_main, hw_fails,
                   hw_restarted, hw_fatal>>

\* finally: grab_result.Release()
HWRelease ==
    /\ hw_pc = "release"
    /\ UNCHANGED otherThanHW
    /\ hw_pc' = "while"
    /\ hw_signal' = "none"
    /\ hw_frames' = Released(hw_frames)
    /\ UNCHANGED <<hw_running, hw_retry_count, hw_last_frame, hw_cam, hw_ret,
                   hw_main, hw_fails, hw_restarted, hw_fatal>>

\* else: self.error_occurred.emit(...); self._handle_error()
HWFailedEmit ==
    /\ hw_pc = "failed_emit"
    /\ UNCHANGED otherThanHW
    /\ hw_signal' = "error_occurred"
    /\ hw_pc' = "handle_error"
    /\ hw_ret' = "while"
    /\ UNCHANGED <<hw_running, hw_retry_count, hw_last_frame, hw_cam, hw_main, hw_fails, hw_restarted,
                   hw_fatal, hw_frames>>

\* except pylon.TimeoutException: time.sleep(0.1)
HWTimeoutSleep ==
    /\ hw_pc = "timeout_sleep"
    /\ UNCHANGED otherThanHW
    /\ hw_pc' = "while"
    /\ hw_signal' = "none"
    /\ UNCHANGED <<hw_running, hw_retry_count, hw_last_frame, hw_cam, hw_ret,
                   hw_main, hw_fails, hw_restarted,
                   hw_fatal, hw_frames>>

\* except Exception: self.error_occurred.emit(...); self._handle_error(); time.sleep(0.1)
HWRaisedEmit ==
    /\ hw_pc = "raised_emit"
    /\ UNCHANGED otherThanHW
    /\ hw_signal' = "error_occurred"
    /\ hw_pc' = "handle_error"
    /\ hw_ret' = "raised_sleep"
    /\ UNCHANGED <<hw_running, hw_retry_count, hw_last_frame, hw_cam, hw_main, hw_fails, hw_restarted,
                   hw_fatal, hw_frames>>

HWRaisedSleep ==
    /\ hw_pc = "raised_sleep"
    /\ UNCHANGED otherThanHW
    /\ hw_pc' = "while"
    /\ hw_signal' = "none"
    /\ UNCHANGED <<hw_running, hw_retry_count, hw_last_frame, hw_cam, hw_ret,
                   hw_main, hw_fails, hw_restarted,
                   hw_fatal, hw_frames>>

(***************************************************************************)
(* _handle_error()                                                         *)
(***************************************************************************)
\* Mutant: the budget compared with > instead of >=.
RetryBudgetExceeded_Strict(count) == count > max_retries

\* if self.retry_count >= self.max_retries:
RetryBudgetExceeded(count) == count >= max_retries

\* self.retry_count += 1; then the restart branch (with its error signal) or the sleep
HWHandleError ==
    /\ hw_pc = "handle_error"
    /\ UNCHANGED otherThanHW
    /\ hw_retry_count' = hw_retry_count + 1
    /\ IF RetryBudgetExceeded(hw_retry_count + 1)
         THEN /\ hw_signal' = "error_occurred"
              /\ hw_pc' = "restart_stop_grabbing"
         ELSE /\ hw_signal' = "none"
              /\ hw_pc' = "retry_sleep"
    /\ UNCHANGED <<hw_running, hw_last_frame, hw_cam, hw_ret, hw_main, hw_fails, hw_restarted,
                   hw_fatal, hw_frames>>

\* else: time.sleep(self.retry_delay)
HWRetrySleep ==
    /\ hw_pc = "retry_sleep"
    /\ UNCHANGED otherThanHW
    /\ hw_pc' = hw_ret
    /\ hw_signal' = "none"
    /\ UNCHANGED <<hw_running, hw_retry_count, hw_last_frame, hw_cam, hw_ret,
                   hw_main, hw_fails, hw_restarted,
                   hw_fatal, hw_frames>>

\* Mutant: the counter is not reset after the restart.
RetryCountAfterRestart_Kept(count) == count

\* The counter after _restart_camera() has returned: self.retry_count = 0
RetryCountAfterRestart(count) == 0

HWResetRetry ==
    /\ hw_pc = "reset_retry"
    /\ UNCHANGED otherThanHW
    /\ hw_retry_count' = RetryCountAfterRestart(hw_retry_count)
    /\ hw_pc' = hw_ret
    /\ hw_signal' = "none"
    /\ UNCHANGED <<hw_running, hw_last_frame, hw_cam, hw_ret, hw_main, hw_fails, hw_restarted,
                   hw_fatal, hw_frames>>

(***************************************************************************)
(* _restart_camera()                                                       *)
(***************************************************************************)
HWRestartStopGrabbing ==
    /\ hw_pc = "restart_stop_grabbing"
    /\ UNCHANGED otherThanHW
    /\ hw_cam' = StopGrabbingIfGrabbing(hw_cam)
    /\ hw_pc' = "restart_close"
    /\ hw_signal' = "none"
    /\ UNCHANGED <<hw_running, hw_retry_count, hw_last_frame, hw_ret, hw_main, hw_fails, hw_restarted,
                   hw_fatal, hw_frames>>

HWRestartClose ==
    /\ hw_pc = "restart_close"
    /\ UNCHANGED otherThanHW
    /\ hw_cam' = CloseIfOpen(hw_cam)
    /\ hw_pc' = "restart_sleep"
    /\ hw_signal' = "none"
    /\ UNCHANGED <<hw_running, hw_retry_count, hw_last_frame, hw_ret, hw_main, hw_fails, hw_restarted,
                   hw_fatal, hw_frames>>

\* time.sleep(1.0)
HWRestartSleep ==
    /\ hw_pc = "restart_sleep"
    /\ UNCHANGED otherThanHW
    /\ hw_pc' = "restart_open"
    /\ hw_signal' = "none"
    /\ UNCHANGED <<hw_running, hw_retry_count, hw_last_frame, hw_cam, hw_ret,
                   hw_main, hw_fails, hw_restarted,
                   hw_fatal, hw_frames>>

\* self.camera.Open()
HWRestartOpen ==
    /\ hw_pc = "restart_open"
    /\ UNCHANGED otherThanHW
    /\ \/ /\ hw_cam' = CamOpen(hw_cam)
          /\ hw_pc' = "restart_configure"
       \/ /\ ~hw_cam.open
          /\ hw_cam' = hw_cam
          /\ hw_pc' = "restart_failed"
    /\ hw_signal' = "none"
    /\ UNCHANGED <<hw_running, hw_retry_count, hw_last_frame, hw_ret, hw_main, hw_fails, hw_restarted,
                   hw_fatal, hw_frames>>

\* the five SetValue calls; they raise on a camera another thread has closed
HWRestartConfigure ==
    /\ hw_pc = "restart_configure"
    /\ UNCHANGED otherThanHW
    /\ \/ /\ hw_cam.open
          /\ hw_pc' = "restart_start_grabbing"
       \/ /\ hw_pc' = "restart_failed"
    /\ hw_signal' = "none"
    /\ UNCHANGED <<hw_running, hw_retry_count, hw_last_frame, hw_cam, hw_ret,
                   hw_main, hw_fails, hw_restarted,
                   hw_fatal, hw_frames>>

\* self.camera.StartGrabbing(pylon.GrabStrategy_LatestImageOnly)
HWRestartStartGrabbing ==
    /\ hw_pc = "restart_start_grabbing"
    /\ UNCHANGED otherThanHW
    /\ \/ /\ hw_cam' = CamStartGrabbing(hw_cam)
          /\ hw_pc' = "reset_retry"
          /\ hw_fails' = 0
          /\ hw_restarted' = TRUE
       \/ /\ hw_cam' = hw_cam
          /\ hw_pc' = "restart_failed"
          /\ hw_fails' = hw_fails
          /\ hw_restarted' = hw_restarted
    /\ hw_signal' = "none"
    /\ UNCHANGED <<hw_running, hw_retry_count, hw_last_frame, hw_ret, hw_main,
                   hw_fatal, hw_frames>>

\* Mutant: a failed restart leaves running set.
RunningAfterFailedRestart_Kept == TRUE

\* self.running = False
RunningAfterFailedRestart == FALSE

\* except Exception: self.error_occurred.emit(...); self.running = False
HWRestartFailed ==
    /\ hw_pc = "restart_failed"
    /\ UNCHANGED otherThanHW
    /\ hw_signal' = "error_occurred"
    /\ hw_running' = RunningAfterFailedRestart
    /\ hw_pc' = "reset_retry"
    /\ hw_fails' = 0
    /\ hw_fatal' = "restart"
    /\ UNCHANGED <<hw_retry_count, hw_last_frame, hw_cam, hw_ret, hw_main, hw_restarted,
                   hw_frames>>

\* The positions inside _restart_camera().
RestartPcs == {"restart_stop_grabbing", "restart_close", "restart_sleep",
               "restart_open", "restart_configure", "restart_start_grabbing",
               "restart_failed"}

(***************************************************************************)
(* stop() and cleanup(), called by _stop_camera on the GUI thread while    *)
(* the grab thread runs; then the join.                                    *)
(***************************************************************************)
\* self.running = False
HWStopFlag ==
    /\ hw_main = "spawned"
    /\ UNCHANGED otherThanHW
    /\ hw_running' = FALSE
    /\ hw_main' = "cleanup_stop_grabbing"
    /\ hw_signal' = "none"
    /\ UNCHANGED <<hw_retry_count, hw_last_frame, hw_cam, hw_pc, hw_ret, hw_fails, hw_restarted,
                   hw_fatal, hw_frames>>

HWCleanupStopGrabbing ==
    /\ hw_main = "cleanup_stop_grabbing"
    /\ UNCHANGED otherThanHW
    /\ hw_cam' = StopGrabbingIfGrabbing(hw_cam)
    /\ hw_main' = "cleanup_close"
    /\ hw_signal' = "none"
    /\ UNCHANGED <<hw_running, hw_retry_count, hw_last_frame, hw_pc, hw_ret, hw_fails, hw_restarted,
                   hw_fatal, hw_frames>>

HWCleanupClose ==
    /\ hw_main = "cleanup_close"
    /\ UNCHANGED otherThanHW
    /\ hw_cam' = CloseIfOpen(hw_cam)
    /\ hw_main' = "cleanup_last_frame"
    /\ hw_signal' = "none"
    /\ UNCHANGED <<hw_running, hw_retry_count, hw_last_frame, hw_pc, hw_ret, hw_fails, hw_restarted,
                   hw_fatal, hw_frames>>

\* self.last_frame = None; gc.collect()
HWCleanupLastFrame ==
    /\ hw_main = "cleanup_last_frame"
    /\ UNCHANGED otherThanHW
    /\ hw_last_frame' = "None"
    /\ hw_main' = "join"
    /\ hw_signal' = "none"
    /\ UNCHANGED <<hw_running, hw_retry_count, hw_cam, hw_pc, hw_ret, hw_fails, hw_restarted,
                   hw_fatal, hw_frames>>

\* self.board_worker_threads[cam_index].join()
HWJoin ==
    /\ hw_main = "join"
    /\ UNCHANGED otherThanHW
    /\ hw_pc = "done"
    /\ hw_main' = "stopped"
    /\ hw_signal' = "none"
    /\ UNCHANGED <<hw_running, hw_retry_count, hw_last_frame, hw_cam, hw_pc, hw_ret, hw_fails, hw_restarted,
                   hw_fatal, hw_frames>>

\* The steps of the grab thread.
HWThread ==
    \/ HWWhile \/ HWIsGrabbing \/ HWRetrieve \/ HWEmit \/ HWRelease
    \/ HWFailedEmit \/ HWTimeoutSleep \/ HWRaisedEmit \/ HWRaisedSleep
    \/ HWHandleError \/ HWRetrySleep \/ HWResetRetry
    \/ HWRestartStopGrabbing \/ HWRestartClose \/ HWRestartSleep
    \/ HWRestartOpen \/ HWRestartConfigure \/ HWRestartStartGrabbing
    \/ HWRestartFailed

\* The steps the GUI thread takes once a handler has begun.
HWHandler ==
    \/ HWSpawn \/ HWCleanupStopGrabbing \/ HWCleanupClose \/ HWCleanupLastFrame
    \/ HWJoin

\* The worker before it is constructed, as the other specifications keep it.
HWIdle ==
    /\ hw_running = FALSE
    /\ hw_retry_count = 0
    /\ hw_last_frame = "None"
    /\ hw_cam = [open |-> TRUE, grabbing |-> FALSE]
    /\ hw_pc = "idle"
    /\ hw_ret = "while"
    /\ hw_main = "new"
    /\ hw_signal = "none"
    /\ hw_fails = 0
    /\ hw_restarted = FALSE
    /\ hw_fatal = "none"
    /\ hw_frames = NoFrames

\* A camera of the pool is open after enumeration and closed after a stop.
HWInit ==
    /\ hw_running = FALSE
    /\ hw_retry_count = 0
    /\ hw_last_frame = "None"
    /\ hw_cam \in {[open |-> o, grabbing |-> FALSE] : o \in BOOLEAN}
    /\ hw_pc = "idle"
    /\ hw_ret = "while"
    /\ hw_main = "new"
    /\ hw_signal = "none"
    /\ hw_fails = 0
    /\ hw_restarted = FALSE
    /\ hw_fatal = "none"
    /\ hw_frames = NoFrames

HWNext == HWStart \/ HWStopFlag \/ HWHandler \/ HWThread

(***************************************************************************)
(* Both worker kinds as objects: start(), stop() and, for the timed        *)
(* worker, the timer tick grab_frame(), each called on the GUI thread and  *)
(* one step.  The grab thread of the hardware-triggered worker is not part *)
(* of this view; SpecHW has it.  StopGrabbing() and Close() in cleanup()   *)
(* are taken to return.                                                    *)
(***************************************************************************)
Kinds == {"hw", "timed"}

\* start() of either worker; outcome is what the SDK does in its try block
WorkerStart(w, kind, outcome) ==
    LET raises == StartRaises(w.camera, outcome)
    IN  [w EXCEPT
           !.running = ~raises,
           !.camera = CamAfterStart(@, outcome),
           !.timer = IF kind = "timed" /\ ~raises THEN TRUE ELSE @,
           !.retry_count = IF kind = "hw" /\ ~raises THEN 0 ELSE @,
           !.signal = IF raises THEN "error_occurred" ELSE "none"]

\* Mutant: a cleanup() that stops grabbing but forgets to close the device.
WorkerCleanup_KeepsOpen(w, kind) ==
    [w EXCEPT
       !.timer = IF kind = "timed" THEN FALSE ELSE @,
       !.camera = StopGrabbingIfGrabbing(@),
       !.last_frame = "None"]

\* cleanup() of either worker; the timed one stops its timer first
WorkerCleanup(w, kind) ==
    [w EXCEPT
       !.timer = IF kind = "timed" THEN FALSE ELSE @,
       !.camera = CloseIfOpen(StopGrabbingIfGrabbing(@)),
       !.last_frame = "None"]

\* Mutant: a stop() that clears the flag and leaves the timer and the device.
WorkerStop_NoCleanup(w, kind) ==
    [w EXCEPT !.running = FALSE, !.signal = "none"]

\* stop() of either worker
WorkerStop(w, kind) ==
    WorkerCleanup([w EXCEPT !.running = FALSE, !.signal = "none"], kind)

\* What RetrieveResult gives a tick: a good grab, a failed grab, or it
\* raises; "handling_raises" is a good grab whose grab_result.Array raises.
GrabOutcomes == {"succeeded", "failed", "raises", "handling_raises"}

\* Mutant: a failed tick stops the worker and its timer.
FailedTick_Stops(w, outcome) ==
    [w EXCEPT !.signal = "error_occurred", !.running = FALSE, !.timer = FALSE]

\* A tick whose grab did not succeed (error_occurred.emit, then Release of
\* the result) or that raised (error_occurred.emit in the except clause,
\* which releases nothing)
FailedTick(w, outcome) ==
    [w EXCEPT !.signal = "error_occurred",
              !.frames = CASE outcome = "failed" -> Released(RetrievedFailed(@))
                           [] outcome = "handling_raises" -> Retrieved(@)
                           [] OTHER -> @]

\* TimedCameraWorker.grab_frame()
WorkerGrabFrame(w, outcome) ==
    IF w.running /\ w.camera.open
    THEN IF outcome = "succeeded"
         THEN [w EXCEPT !.signal = "frame_ready",
                        !.frames = Released(Emitted(ArrayOf(Retrieved(@))))]
         ELSE FailedTick(w, outcome)
    ELSE [w EXCEPT !.signal = "none"]

\* The last two calls after one more
Called(calls, method) ==
    IF Len(calls) < 2 THEN Append(calls, method) ELSE <<calls[2], method>>

CallStart(kind) ==
    /\ UNCHANGED otherThanWorkers
    /\ \E outcome \in StartOutcomes :
        wk' = [wk EXCEPT ![kind] = WorkerStart(@, kind, outcome)]
    /\ wk_calls' = [wk_calls EXCEPT ![kind] = Called(@, "start")]

CallStop(kind) ==
    /\ UNCHANGED otherThanWorkers
    /\ wk' = [wk EXCEPT ![kind] = WorkerStop(@, kind)]
    /\ wk_calls' = [wk_calls EXCEPT ![kind] = Called(@, "stop")]

\* self.timer.timeout fires only while the timer is active
TimerTick ==
    /\ UNCHANGED otherThanWorkers
    /\ wk["timed"].timer
    /\ \E outcome \in GrabOutcomes :
        wk' = [wk EXCEPT !["timed"] = WorkerGrabFrame(@, outcome)]
    /\ wk_calls' = [wk_calls EXCEPT !["timed"] = Called(@, "grab_frame")]

\* __init__ of both workers, each on a camera of the pool
WorkersInit ==
    /\ wk = [k \in Kinds |->
                [running |-> FALSE, timer |-> FALSE, last_frame |-> "None",
                 camera |-> [open |-> TRUE, grabbing |-> FALSE],
                 retry_count |-> 0, signal |-> "none", frames |-> NoFrames]]
    /\ wk_calls = [k \in Kinds |-> <<>>]

WorkersNext ==
    \/ \E k \in Kinds : CallStart(k)
    \/ \E k \in Kinds : CallStop(k)
    \/ TimerTick

(***************************************************************************)
(* ParallelDetectorGUI: starting and stopping the four slots               *)
(* (gui/main_window.py).  Every handler runs on the GUI thread and is one  *)
(* step.  A handler is a function of the slot state g, a record of the     *)
(* variables it can change, so that start-all and stop-all compose the     *)
(* per-slot handlers exactly as the code calls them.  Of a worker's        *)
(* start() the GUI sees whether it failed (running is False and the error  *)
(* signal was emitted); what start() and stop() do to the camera is the    *)
(* subject of SpecHW.                                                      *)
(***************************************************************************)
\* Bound: how many cameras CameraManager.initialize_cameras() found.
NumCams == 2

\* The index of a camera in self.available_cameras stands for the camera object.
Cameras == 0..(NumCams - 1)

\* for i in range(2): two slots per class
NumSlots == 2

Slots == 0..(NumSlots - 1)

\* None, for an image or a result
None == 0

\* gui_last after a handler that is not the start of one slot
OtherOp == [op |-> "other", slot |-> 0]

\* x in list
InList(x, list) == \E k \in 1..Len(list) : list[k] = x

\* list.remove(x): the first occurrence goes
ListRemove(list, x) ==
    LET k == CHOOSE k \in 1..Len(list) :
                 list[k] = x /\ \A j \in 1..(k - 1) : list[j] # x
    IN  SubSeq(list, 1, k - 1) \o SubSeq(list, k + 1, Len(list))

\* del d[key]
DictDel(d, key) == [k \in DOMAIN d \ {key} |-> d[k]]

\* d[key] = val
DictSet(d, key, val) == [k \in DOMAIN d \cup {key} |-> IF k = key THEN val ELSE d[k]]

\* The slot state the handlers work on.
GuiState ==
    [nail_combo_enabled |-> nail_combo_enabled,
     board_combo_enabled |-> board_combo_enabled,
     nail_cameras |-> nail_cameras,
     board_cameras |-> board_cameras,
     nail_camera_workers |-> nail_camera_workers,
     board_camera_workers |-> board_camera_workers,
     board_worker_threads |-> board_worker_threads,
     nail_images |-> nail_images,
     board_images |-> board_images,
     gui_errors |-> gui_errors]

SetGuiState(g) ==
    /\ nail_combo_enabled' = g.nail_combo_enabled
    /\ board_combo_enabled' = g.board_combo_enabled
    /\ nail_cameras' = g.nail_cameras
    /\ board_cameras' = g.board_cameras
    /\ nail_camera_workers' = g.nail_camera_workers
    /\ board_camera_workers' = g.board_camera_workers
    /\ board_worker_threads' = g.board_worker_threads
    /\ nail_images' = g.nail_images
    /\ board_images' = g.board_images
    /\ gui_errors' = g.gui_errors

\* _stop_nail_camera(cam_index)
StopNailCamera(g, cam_index) ==
    IF cam_index \notin DOMAIN g.nail_camera_workers
    THEN g
    ELSE LET worker == g.nail_camera_workers[cam_index]
             camera == nail_combo[cam_index]
         IN  [g EXCEPT
                !.nail_camera_workers = DictDel(@, cam_index),
                !.nail_cameras = IF InList(camera, @) THEN ListRemove(@, camera) ELSE @,
                !.nail_images[cam_index] = None,
                !.nail_combo_enabled[cam_index] = TRUE]

\* _stop_camera(cam_index)
StopCamera(g, cam_index) ==
    IF cam_index \notin DOMAIN g.board_camera_workers
    THEN g
    ELSE LET worker == g.board_camera_workers[cam_index]
             camera == board_combo[cam_index]
         IN  [g EXCEPT
                !.board_worker_threads = @ \ {cam_index},
                !.board_camera_workers = DictDel(@, cam_index),
                !.board_cameras = IF InList(camera, @) THEN ListRemove(@, camera) ELSE @,
                !.board_images[cam_index] = None,
                !.board_combo_enabled[cam_index] = TRUE]

\* "cam_index in self.nail_cameras" / "cam_index in self.board_cameras": a slot
\* number looked up in a list of camera objects is never found.
IndexInCameraList(cam_index, cameras) == FALSE

\* _handle_camera_error(cam_index, error_msg); msg is "in use" or "Failed to start"
HandleCameraError(g, cam_index, msg) ==
    LET g1 == [g EXCEPT !.gui_errors = Append(@, <<cam_index, msg>>)]
    IN  IF msg = "Failed to start" /\ cam_index \in DOMAIN g.nail_camera_workers
        THEN IF IndexInCameraList(cam_index, g.nail_cameras)
             THEN StopNailCamera(g1, cam_index)
             ELSE IF IndexInCameraList(cam_index, g.board_cameras)
                  THEN StopCamera(g1, cam_index)
                  ELSE g1
        ELSE g1

\* Mutant: no camera is ever found in use.
CameraInUse_Never(camera, cameras) == FALSE

\* if camera in self.nail_cameras: / if camera in self.board_cameras:
CameraInUse(camera, cameras) == InList(camera, cameras)

\* _start_nail_camera(cam_index); raises: whether TimedCameraWorker.start() fails
StartNailCamera(g, cam_index, raises) ==
    IF cam_index \in DOMAIN g.nail_camera_workers
    THEN g
    ELSE IF ~(nail_combo[cam_index] < NumCams)
    THEN g
    ELSE LET camera == nail_combo[cam_index] IN
         IF CameraInUse(camera, g.nail_cameras)
         THEN HandleCameraError(g, cam_index, "in use")
         ELSE LET worker == [camera |-> camera, running |-> ~raises, timer |-> ~raises]
                  g1 == [g EXCEPT
                           !.nail_cameras = Append(@, camera),
                           !.nail_camera_workers = DictSet(@, cam_index, worker)]
                  g2 == IF raises THEN HandleCameraError(g1, cam_index, "Failed to start")
                        ELSE g1
              IN  [g2 EXCEPT !.nail_combo_enabled[cam_index] = FALSE]

\* Mutant: _start_camera without the test for a registered worker.
StartCamera_NoGuard(g, cam_index, raises) ==
    IF ~(board_combo[cam_index] < NumCams)
    THEN g
    ELSE LET camera == board_combo[cam_index] IN
         IF CameraInUse(camera, g.board_cameras)
         THEN HandleCameraError(g, cam_index, "in use")
         ELSE LET worker == [camera |-> camera, running |-> ~raises]
                  g1 == [g EXCEPT
                           !.board_cameras = Append(@, camera),
                           !.board_camera_workers = DictSet(@, cam_index, worker)]
                  g2 == IF raises THEN HandleCameraError(g1, cam_index, "Failed to start")
                        ELSE g1
              IN  [g2 EXCEPT
                     !.board_worker_threads = @ \cup {cam_index},
                     !.board_combo_enabled[cam_index] = FALSE]

\* _start_camera(cam_index); raises: whether HardwareTriggeredCameraWorker.start() fails
StartCamera(g, cam_index, raises) ==
    IF cam_index \in DOMAIN g.board_camera_workers
    THEN g
    ELSE IF ~(board_combo[cam_index] < NumCams)
    THEN g
    ELSE LET camera == board_combo[cam_index] IN
         IF CameraInUse(camera, g.board_cameras)
         THEN HandleCameraError(g, cam_index, "in use")
         ELSE LET worker == [camera |-> camera, running |-> ~raises]
                  g1 == [g EXCEPT
                           !.board_cameras = Append(@, camera),
                           !.board_camera_workers = DictSet(@, cam_index, worker)]
                  g2 == IF raises THEN HandleCameraError(g1, cam_index, "Failed to start")
                        ELSE g1
              IN  [g2 EXCEPT
                     !.board_worker_threads = @ \cup {cam_index},
                     !.board_combo_enabled[cam_index] = FALSE]

\* The slot state at the beginning of a handler.
GuiAtEntry == [GuiState EXCEPT !.gui_errors = <<>>]

\* nail_start_btns[i].clicked
ClickStartNail(i) ==
    /\ UNCHANGED otherThanGui
    /\ \E raises \in BOOLEAN : SetGuiState(StartNailCamera(GuiAtEntry, i, raises))
    /\ gui_last' = [op |-> "start_nail", slot |-> i]
    /\ UNCHANGED <<nail_combo, board_combo, run_btn, workers, completed_detections,
                   total_inference_time, board_pending, dispatched>>

\* nail_stop_btns[i].clicked
ClickStopNail(i) ==
    /\ UNCHANGED otherThanGui
    /\ SetGuiState(StopNailCamera(GuiAtEntry, i))
    /\ gui_last' = OtherOp
    /\ UNCHANGED <<nail_combo, board_combo, run_btn, workers, completed_detections,
                   total_inference_time, board_pending, dispatched>>

\* board_start_btns[i].clicked
ClickStartBoard(i) ==
    /\ UNCHANGED otherThanGui
    /\ \E raises \in BOOLEAN : SetGuiState(StartCamera(GuiAtEntry, i, raises))
    /\ gui_last' = [op |-> "start_board", slot |-> i]
    /\ UNCHANGED <<nail_combo, board_combo, run_btn, workers, completed_detections,
                   total_inference_time, board_pending, dispatched>>

\* board_stop_btns[i].clicked
ClickStopBoard(i) ==
    /\ UNCHANGED otherThanGui
    /\ SetGuiState(StopCamera(GuiAtEntry, i))
    /\ gui_last' = OtherOp
    /\ UNCHANGED <<nail_combo, board_combo, run_btn, workers, completed_detections,
                   total_inference_time, board_pending, dispatched>>

\* The loop of run_all_detections from slot i on: _start_camera(i), _start_nail_camera(i)
RECURSIVE StartAllFrom(_, _, _)
StartAllFrom(g, i, raises) ==
    IF i >= NumSlots
    THEN g
    ELSE LET g1 == IF board_combo[i] >= 0
                   THEN StartCamera(g, i, raises[2 * i + 1]) ELSE g
             g2 == IF nail_combo[i] >= 0
                   THEN StartNailCamera(g1, i, raises[2 * i + 2]) ELSE g1
         IN  StartAllFrom(g2, i + 1, raises)

\* run_all_detections(), while global_run_btn says "Start All Cameras"
RunAllDetections ==
    /\ UNCHANGED otherThanGui
    /\ run_btn = "start_all"
    /\ workers' = <<>>
    /\ completed_detections' = 0
    /\ total_inference_time' = 0
    /\ \E raises \in [1..(2 * NumSlots) -> BOOLEAN] :
        SetGuiState(StartAllFrom(GuiAtEntry, 0, raises))
    /\ run_btn' = "stop_all"
    /\ gui_last' = OtherOp
    /\ UNCHANGED <<nail_combo, board_combo, board_pending, dispatched>>

\* The loop of stop_all_detections from slot i on
RECURSIVE StopAllFrom(_, _)
StopAllFrom(g, i) ==
    IF i >= NumSlots
    THEN g
    ELSE LET g1 == IF i \in DOMAIN g.board_camera_workers
                   THEN StopCamera(g, i) ELSE g
             g2 == IF i \in DOMAIN g1.nail_camera_workers
                   THEN StopNailCamera(g1, i) ELSE g1
         IN  StopAllFrom(g2, i + 1)

\* stop_all_detections(), while global_run_btn says "Stop All Cameras"
StopAllDetections ==
    /\ UNCHANGED otherThanGui
    /\ run_btn = "stop_all"
    /\ SetGuiState(StopAllFrom(GuiAtEntry, 0))
    /\ run_btn' = "start_all"
    /\ gui_last' = OtherOp
    /\ UNCHANGED <<nail_combo, board_combo, workers, completed_detections,
                   total_inference_time, board_pending, dispatched>>

\* The user picks another camera in an enabled combo box of a nail slot.
SelectNailCamera(i, c) ==
    /\ UNCHANGED otherThanGui
    /\ nail_combo_enabled[i]
    /\ nail_combo' = [nail_combo EXCEPT ![i] = c]
    /\ gui_last' = OtherOp
    /\ gui_errors' = <<>>
    /\ UNCHANGED <<board_combo, nail_combo_enabled, board_combo_enabled,
                   nail_cameras, board_cameras, nail_camera_workers,
                   board_camera_workers, board_worker_threads, run_btn, aggVars>>

\* The user picks another camera in an enabled combo box of a board slot.
SelectBoardCamera(i, c) ==
    /\ UNCHANGED otherThanGui
    /\ board_combo_enabled[i]
    /\ board_combo' = [board_combo EXCEPT ![i] = c]
    /\ gui_last' = OtherOp
    /\ gui_errors' = <<>>
    /\ UNCHANGED <<nail_combo, nail_combo_enabled, board_combo_enabled,
                   nail_cameras, board_cameras, nail_camera_workers,
                   board_camera_workers, board_worker_threads, run_btn, aggVars>>

\* __init__: the pool is open, every combo box shows its first camera.
GuiInit ==
    /\ nail_combo = [i \in Slots |-> 0]
    /\ board_combo = [i \in Slots |-> 0]
    /\ nail_combo_enabled = [i \in Slots |-> TRUE]
    /\ board_combo_enabled = [i \in Slots |-> TRUE]
    /\ nail_cameras = <<>>
    /\ board_cameras = <<>>
    /\ nail_camera_workers = <<>>
    /\ board_camera_workers = <<>>
    /\ board_worker_threads = {}
    /\ run_btn = "start_all"
    /\ gui_errors = <<>>
    /\ gui_last = OtherOp

AggInit ==
    /\ nail_images = [i \in Slots |-> None]
    /\ board_images = [i \in Slots |-> None]
    /\ workers = <<>>
    /\ completed_detections = 0
    /\ total_inference_time = 0
    /\ board_pending = {}
    /\ dispatched = 0

GuiNext ==
    \/ \E i \in Slots : ClickStartNail(i)
    \/ \E i \in Slots : ClickStopNail(i)
    \/ \E i \in Slots : ClickStartBoard(i)
    \/ \E i \in Slots : ClickStopBoard(i)
    \/ RunAllDetections
    \/ StopAllDetections
    \/ \E i \in Slots, c \in Cameras : SelectNailCamera(i, c)
    \/ \E i \in Slots, c \in Cameras : SelectBoardCamera(i, c)

(***************************************************************************)
(* draw_detections (utils/image_utils.py): the board measurement.          *)
(* Lengths in mm are counted in twentieths of a millimetre, so that the    *)
(* default ratio of 0.1 mm per pixel is 2, every distance in mm is an even *)
(* number and the halving of the average is exact.  A box is the tuple     *)
(* (x1, y1, x2, y2) of draw_detections; a result is its sequence of boxes. *)
(***************************************************************************)
\* x millimetres
Mm(x) == 20 * x

\* pixels_to_mm = 0.1, target_measurement_mm = 0.0, measurement_threshold_mm = 5.0,
\* nail_confidence = 0.25, board_confidence = 0.5 (in hundredths)
DefaultSettings ==
    [pixels_to_mm |-> 2, target_measurement_mm |-> Mm(0),
     measurement_threshold_mm |-> Mm(5),
     nail_confidence |-> 25, board_confidence |-> 50]

\* abs()
Abs(x) == IF x < 0 THEN -x ELSE x

\* Mutant: box goes before the boxes of the same x1, as in a sort that is not stable.
InsertByX1_BeforeEqual(box, sorted) ==
    LET k == Cardinality({j \in 1..Len(sorted) : sorted[j][1] < box[1]})
    IN  SubSeq(sorted, 1, k) \o <<box>> \o SubSeq(sorted, k + 1, Len(sorted))

\* One step of the stable sort: box goes behind every box whose x1 is not larger.
InsertByX1(box, sorted) ==
    LET k == Cardinality({j \in 1..Len(sorted) : sorted[j][1] <= box[1]})
    IN  SubSeq(sorted, 1, k) \o <<box>> \o SubSeq(sorted, k + 1, Len(sorted))

\* boxes.sort(key=lambda x: x[0])
RECURSIVE SortByX1(_)
SortByX1(boxes) ==
    IF boxes = <<>>
    THEN <<>>
    ELSE InsertByX1(boxes[Len(boxes)], SortByX1(SubSeq(boxes, 1, Len(boxes) - 1)))

\* Mutant: a difference equal to the threshold counts as a defect.
ExceedsThreshold_Inclusive(measurement_diff, threshold) == measurement_diff >= threshold

\* measurement_diff > settings.measurement_threshold_mm
ExceedsThreshold(measurement_diff, threshold) == measurement_diff > threshold

\* The measurement block of draw_detections, for at least two boxes.
Measure(boxes, st) ==
    LET sorted == SortByX1(boxes)
        box1 == sorted[1]
        box2 == sorted[Len(sorted)]
        right_dist_px == box2[3] - box1[3]
        left_dist_px == box2[1] - box1[1]
        right_dist_mm == right_dist_px * st.pixels_to_mm
        left_dist_mm == left_dist_px * st.pixels_to_mm
        avg_measurement == (right_dist_mm + left_dist_mm) \div 2
        measurement_diff == Abs(avg_measurement - st.target_measurement_mm)
    IN  [measured |-> TRUE,
         box1 |-> box1,
         box2 |-> box2,
         avg_measurement |-> avg_measurement,
         measurement_diff |-> measurement_diff,
         is_measurement_defect |->
             ExceedsThreshold(measurement_diff, st.measurement_threshold_mm)]

\* What draw_detections has when the measurement block is skipped.
NotMeasured ==
    [measured |-> FALSE, box1 |-> <<>>, box2 |-> <<>>, avg_measurement |-> 0,
     measurement_diff |-> 0, is_measurement_defect |-> FALSE]

\* Mutant: one box is enough to measure.
EnoughBoxes_One(boxes) == Len(boxes) >= 1

\* len(boxes) >= 2
EnoughBoxes(boxes) == Len(boxes) >= 2

\* draw_detections(image, results, label, settings, is_defect).  board_label:
\* label.parent() has board_image_labels and label is one of them.  A result
\* without boxes is falsy and returns at once; image.copy() raises on None;
\* the last line calls the local array display_image, which raises.
DrawDetections(image, boxes, board_label, st, is_defect) ==
    IF boxes = <<>>
    THEN [returned |-> "early", raises |-> FALSE, m |-> NotMeasured]
    ELSE IF image = None
    THEN [returned |-> "no", raises |-> TRUE, m |-> NotMeasured]
    ELSE [returned |-> "no", raises |-> TRUE,
          m |-> IF board_label /\ EnoughBoxes(boxes) THEN Measure(boxes, st)
                ELSE NotMeasured]

\* Bound: the boxes of one result.
MaxBoxes == 3

\* The x1 and the widths of the boxes tried; y1 and y2 do not enter the measurement.
BoxSet == {<<x1, 0, x1 + w, 100>> : x1 \in {10, 110, 200}, w \in {40, 60}}

\* Sequences of at most n boxes.
RECURSIVE BoxSeqs(_)
BoxSeqs(n) ==
    IF n = 0
    THEN {<<>>}
    ELSE LET shorter == BoxSeqs(n - 1)
         IN  shorter \cup {Append(q, b) : q \in shorter, b \in BoxSet}

\* The settings tried: the defaults, with a target of 0, 10, 15 or 20 mm.
SettingsSet ==
    {[DefaultSettings EXCEPT !.target_measurement_mm = Mm(t)] : t \in {0, 10, 15, 20}}

\* A frame, as opposed to None.
Frame == 1

MeasureCall ==
    /\ UNCHANGED otherThanMeasure
    /\ ~m_out.called
    /\ m_out' = [called |-> TRUE,
                 m |-> DrawDetections(Frame, m_boxes, m_board_label, m_settings, FALSE).m]
    /\ UNCHANGED <<m_boxes, m_settings, m_board_label>>

\* Any result, any of the settings, either kind of label.
MeasureInit ==
    /\ m_boxes \in BoxSeqs(MaxBoxes)
    /\ m_settings \in SettingsSet
    /\ m_board_label \in BOOLEAN
    /\ m_out = [called |-> FALSE, m |-> NotMeasured]

\* No call of draw_detections in sight.
MeasureIdle ==
    /\ m_boxes = <<>>
    /\ m_settings = DefaultSettings
    /\ m_board_label = FALSE
    /\ m_out = [called |-> FALSE, m |-> NotMeasured]

(***************************************************************************)
(* ParallelDetectorGUI: frames, detection dispatch and the handling of     *)
(* completions (gui/main_window.py, detection/detection_worker.py,         *)
(* hardware/relay_controller.py, database/fault_database.py).  A dispatch  *)
(* carries one frame, so a completion carries one result.  The insert of   *)
(* log_fault is taken to succeed.                                          *)
(***************************************************************************)
\* Bound: the dispatches started.
MaxDispatch == 2

\* None in a results list
NoResult == [absent |-> TRUE, boxes |-> <<>>]

\* Mutant: no outcome is taken for an absent one.
IsNone_Never(result) == FALSE

\* result is None
IsNone(result) == result.absent

\* A result of the model with the given boxes
ResultOf(boxes) == [absent |-> FALSE, boxes |-> boxes]

\* The results a model returns here: no box, one box, and two boxes that
\* measure 20 mm at the default ratio.
ResultSet ==
    {ResultOf(q) : q \in {<<>>,
                          <<<<10, 0, 50, 100>>>>,
                          <<<<10, 0, 50, 100>>, <<200, 0, 260, 100>>>>}}

\* hasattr(label.parent(), 'board_image_labels'): the labels are children of
\* nail_widget and board_widget, plain QWidgets.
LabelParentHasBoardLabels == FALSE

\* What the serial port does during trigger(): both writes succeed, the write
\* of the on frame raises, or the write of the off frame raises.
TriggerOutcomes == {"ok", "on_write_fails", "off_write_fails"}

\* RelayController.trigger(): turn_on(), sleep, turn_off()
RelayTrigger(connected, writes, outcome) ==
    IF ~connected \/ outcome = "on_write_fails"
    THEN writes
    ELSE IF outcome = "off_write_fails"
    THEN Append(writes, "on")
    ELSE writes \o <<"on", "off">>

\* fault_db.log_fault("Nail", image_index + 1, f"Detected {n} nails")
NailFault(image_index, n) ==
    [fault_type |-> "Nail", image_index |-> image_index + 1,
     details |-> <<"Detected", n, "nails">>, measurement |-> None]

\* Mutant: every nail result counts as a defect.
HasNails_Always(result) == TRUE

\* has_nails = len(result.boxes) > 0
HasNails(result) == Len(result.boxes) > 0

\* The frame of a frame-ready event: an image that differs from the one the
\* slot's buffer holds.
NewFrame(image) == IF image = 1 THEN 2 ELSE 1

\* Mutant: every dispatch is given the nail threshold.
BatchDetectionWorker_NailConf(frame, detector_type, cam_index, conf) ==
    [detector_type |-> detector_type, images |-> <<frame>>,
     image_indices |-> <<cam_index>>, conf |-> settings.nail_confidence,
     running |-> TRUE]

\* BatchDetectionWorker(model, [frame], detector_type, [cam_index], device,
\* conf=conf), started
BatchDetectionWorker(frame, detector_type, cam_index, conf) ==
    [detector_type |-> detector_type, images |-> <<frame>>,
     image_indices |-> <<cam_index>>, conf |-> conf, running |-> TRUE]

\* _handle_nail_frame(cam_index, frame), called by a tick of a running timed worker
HandleNailFrame(cam_index) ==
    /\ UNCHANGED otherThanAgg
    /\ cam_index \in DOMAIN nail_camera_workers
    /\ nail_camera_workers[cam_index].running
    /\ Len(workers) < MaxDispatch
    /\ dispatched < MaxDispatch
    /\ nail_images' = [nail_images EXCEPT ![cam_index] = NewFrame(@)]
    /\ workers' = IF models.nail
                  THEN Append(workers, BatchDetectionWorker(NewFrame(nail_images[cam_index]),
                                                            "nail", cam_index,
                                                            settings.nail_confidence))
                  ELSE workers
    /\ dispatched' = IF models.nail THEN dispatched + 1 ELSE dispatched
    /\ UNCHANGED <<board_images, completed_detections, total_inference_time,
                   board_pending, outVars>>

\* _handle_board_frame(cam_index, frame), for a frame of a grab thread
HandleBoardFrame(cam_index) ==
    /\ UNCHANGED otherThanAgg
    /\ cam_index \in DOMAIN board_camera_workers
    /\ board_camera_workers[cam_index].running
    /\ Len(workers) < MaxDispatch
    /\ dispatched < MaxDispatch
    /\ board_images' = [board_images EXCEPT ![cam_index] = NewFrame(@)]
    /\ workers' = IF models.board
                  THEN Append(workers, BatchDetectionWorker(NewFrame(board_images[cam_index]),
                                                            "board", cam_index,
                                                            settings.board_confidence))
                  ELSE workers
    /\ dispatched' = IF models.board THEN dispatched + 1 ELSE dispatched
    /\ UNCHANGED <<nail_images, completed_detections, total_inference_time,
                   board_pending, outVars>>

\* frame_ready.emit(cam_index, img) in the grab thread of a running board
\* worker: the call of _handle_board_frame is queued for the GUI thread.
EmitBoardFrame(cam_index) ==
    /\ UNCHANGED otherThanAgg
    /\ cam_index \in DOMAIN board_camera_workers
    /\ board_camera_workers[cam_index].running
    /\ cam_index \notin board_pending
    /\ board_pending' = board_pending \cup {cam_index}
    /\ UNCHANGED <<nail_images, board_images, workers, completed_detections,
                   total_inference_time, dispatched, outVars>>

\* _handle_board_frame(cam_index, frame) for a queued frame_ready: the
\* handler does not look at board_camera_workers.
HandleQueuedBoardFrame(cam_index) ==
    /\ UNCHANGED otherThanAgg
    /\ cam_index \in board_pending
    /\ Len(workers) < MaxDispatch
    /\ dispatched < MaxDispatch
    /\ board_pending' = board_pending \ {cam_index}
    /\ board_images' = [board_images EXCEPT ![cam_index] = NewFrame(@)]
    /\ workers' = IF models.board
                  THEN Append(workers, BatchDetectionWorker(NewFrame(board_images[cam_index]),
                                                            "board", cam_index,
                                                            settings.board_confidence))
                  ELSE workers
    /\ dispatched' = IF models.board THEN dispatched + 1 ELSE dispatched
    /\ UNCHANGED <<nail_images, completed_detections, total_inference_time, outVars>>

\* Mutant: the sweep clears every image.
PeriodicCleanup_ClearsAll ==
    /\ UNCHANGED <<otherThanAgg, outVars>>
    /\ workers' = SelectSeq(workers, LAMBDA w : w.running)
    /\ board_images' = [i \in Slots |-> None]
    /\ nail_images' = [i \in Slots |-> None]
    /\ UNCHANGED <<completed_detections, total_inference_time, board_pending, dispatched>>

\* periodic_cleanup(): the tracked dispatches that still run are kept, the
\* image of a slot without a worker is set to None.
PeriodicCleanup ==
    /\ UNCHANGED <<otherThanAgg, outVars>>
    /\ workers' = SelectSeq(workers, LAMBDA w : w.running)
    /\ board_images' = [i \in Slots |->
                            IF board_images[i] # None /\ i \notin DOMAIN board_camera_workers
                            THEN None ELSE board_images[i]]
    /\ nail_images' = [i \in Slots |->
                           IF nail_images[i] # None /\ i \notin DOMAIN nail_camera_workers
                           THEN None ELSE nail_images[i]]
    /\ UNCHANGED <<completed_detections, total_inference_time, board_pending, dispatched>>

\* detection_complete.emit(results, detector_type, image_indices,
\* inference_time): one result for the one image, the measured time (1 here).
\* sent is history: the frame the dispatch was given.
SuccessCompletion(w, result) ==
    [results_list |-> <<result>>,
     detector_type |-> w.detector_type,
     image_indices |-> w.image_indices,
     inference_time |-> 1,
     sent |-> w.images[1]]

\* Mutant: the failure tuple has one absent value too many.
FailureCompletion_Doubled(w) ==
    [results_list |-> [i \in 1..(Len(w.images) + 1) |-> NoResult],
     detector_type |-> w.detector_type,
     image_indices |-> w.image_indices,
     inference_time |-> 0,
     sent |-> w.images[1]]

\* except Exception: detection_complete.emit([None] * len(self.images),
\* detector_type, image_indices, 0.0)
FailureCompletion(w) ==
    [results_list |-> [i \in 1..Len(w.images) |-> NoResult],
     detector_type |-> w.detector_type,
     image_indices |-> w.image_indices,
     inference_time |-> 0,
     sent |-> w.images[1]]

\* BatchDetectionWorker.run() of the k-th tracked dispatch: the model returns
\* a result and the time is measured, or something raises.
DispatchRun(k) ==
    /\ UNCHANGED otherThanAgg
    /\ k \in 1..Len(workers)
    /\ workers[k].running
    /\ workers' = [workers EXCEPT ![k].running = FALSE]
    /\ \/ \E result \in ResultSet :
            completions' = Append(completions, SuccessCompletion(workers[k], result))
       \/ completions' = Append(completions, FailureCompletion(workers[k]))
    /\ UNCHANGED <<nail_images, board_images, completed_detections,
                   total_inference_time, board_pending, dispatched,
                   nail_results, board_results, settings,
                   models, faults, relay_connected, relay_writes, agg_last>>

\* handle_batch_detection_results(results_list, detector_type, image_indices,
\* inference_time) for the completion at the head of the queue
HandleBatchDetectionResults ==
    /\ UNCHANGED otherThanAgg
    /\ completions # <<>>
    /\ completions' = Tail(completions)
    /\ LET ev == Head(completions)
           result == ev.results_list[1]
           image_index == ev.image_indices[1]
           is_nail == ev.detector_type = "nail"
           has_nails == is_nail /\ ~IsNone(result) /\ HasNails(result)
           drawn == IF is_nail
                    THEN DrawDetections(nail_images[image_index], result.boxes,
                                        FALSE, settings, has_nails)
                    ELSE DrawDetections(board_images[image_index], result.boxes,
                                        LabelParentHasBoardLabels, settings, FALSE)
           raised == ~IsNone(result) /\ drawn.raises
           counted == ~IsNone(result) /\ ~raised
       IN  /\ nail_results' = IF is_nail /\ ~IsNone(result)
                              THEN [nail_results EXCEPT ![image_index] = result]
                              ELSE nail_results
           /\ board_results' = IF ~is_nail /\ ~IsNone(result)
                               THEN [board_results EXCEPT ![image_index] = result]
                               ELSE board_results
           /\ faults' = IF has_nails
                        THEN Append(faults, NailFault(image_index, Len(result.boxes)))
                        ELSE faults
           /\ \E outcome \in TriggerOutcomes :
                /\ relay_writes' = IF has_nails
                                   THEN RelayTrigger(relay_connected, relay_writes, outcome)
                                   ELSE relay_writes
                /\ agg_last' = [seq |-> agg_last.seq + 1,
                                detector_type |-> ev.detector_type,
                                image_index |-> image_index,
                                result |-> result,
                                triggers |-> IF has_nails THEN 1 ELSE 0,
                                relay |-> IF has_nails THEN outcome ELSE "none",
                                measured |-> ~IsNone(result) /\ drawn.m.measured,
                                raised |-> raised,
                                summary |->
                                    /\ counted
                                    /\ completed_detections + Len(ev.image_indices)
                                           = Cardinality(UNION {{<<k, j>> :
                                                    j \in 1..Len(workers[k].image_indices)} :
                                                        k \in 1..Len(workers)})]
           /\ completed_detections' = IF counted
                                      THEN completed_detections + Len(ev.image_indices)
                                      ELSE completed_detections
           /\ total_inference_time' = IF counted
                                      THEN total_inference_time + ev.inference_time
                                      ELSE total_inference_time
    /\ UNCHANGED <<nail_images, board_images, workers, board_pending, dispatched,
                   settings, models, relay_connected>>

\* __init__, with the relay connected or not, the two models loaded or
\* neither, and the default settings or a target of 20 mm.
OutInit ==
    /\ nail_results = [i \in Slots |-> NoResult]
    /\ board_results = [i \in Slots |-> NoResult]
    /\ settings \in {DefaultSettings,
                      [DefaultSettings EXCEPT !.target_measurement_mm = Mm(20)]}
    /\ models \in {[t \in {"nail", "board"} |-> loaded] : loaded \in BOOLEAN}
    /\ completions = <<>>
    /\ faults = <<>>
    /\ relay_connected \in BOOLEAN
    /\ relay_writes = <<>>
    /\ agg_last = [seq |-> 0, detector_type |-> "none", image_index |-> 0,
                   result |-> NoResult, triggers |-> 0, relay |-> "none",
                   measured |-> FALSE, raised |-> FALSE, summary |-> FALSE]

\* __init__ with the relay connected, both models loaded, the default settings.
OutIdle ==
    /\ OutInit
    /\ settings = DefaultSettings
    /\ models = [t \in {"nail", "board"} |-> TRUE]
    /\ relay_connected

\* The slots after every combo box was set to a camera of its own class and
\* start-all started the four workers.
GuiStarted ==
    /\ nail_combo = [i \in Slots |-> i % NumCams]
    /\ board_combo = [i \in Slots |-> i % NumCams]
    /\ nail_combo_enabled = [i \in Slots |-> FALSE]
    /\ board_combo_enabled = [i \in Slots |-> FALSE]
    /\ nail_cameras = [i \in 1..NumSlots |-> (i - 1) % NumCams]
    /\ board_cameras = [i \in 1..NumSlots |-> (i - 1) % NumCams]
    /\ nail_camera_workers =
           [i \in Slots |-> [camera |-> i % NumCams, running |-> TRUE, timer |-> TRUE]]
    /\ board_camera_workers =
           [i \in Slots |-> [camera |-> i % NumCams, running |-> TRUE]]
    /\ board_worker_threads = Slots
    /\ run_btn = "stop_all"
    /\ gui_errors = <<>>
    /\ gui_last = OtherOp

AggNext ==
    \/ \E i \in Slots : HandleNailFrame(i)
    \/ \E i \in Slots : HandleBoardFrame(i)
    \/ \E k \in 1..MaxDispatch : DispatchRun(k)
    \/ HandleBatchDetectionResults



(***************************************************************************)
(* FaultDatabase (database/fault_database.py).  A row is a record          *)
(* [timestamp, fault_type, image_index, details, measurement]; a timestamp *)
(* "%Y-%m-%d %H:%M:%S" is the number 10 * day + second, which orders as    *)
(* the strings do; a measurement is "None" or the text of a number.        *)
(***************************************************************************)
\* Bound: the rows the table holds at most.
MaxFaults == 2

\* datetime.now() at an insert: a second of day 1 and one of day 2.  The wall
\* clock need not advance between two inserts, and can be set back.
Times == {11, 21}

NoCall == [op |-> "none"]

\* log_fault(fault_type, image_index, details, measurement=None)
LogFault ==
    /\ UNCHANGED <<otherThanSvc, relay, pool>>
    /\ Len(db) < MaxFaults
    /\ \E now \in Times, fault_type \in {"Nail", "Board Alignment"}, image_index \in {1, 2} :
        /\ db' = Append(db, [timestamp |-> now, fault_type |-> fault_type,
                             image_index |-> image_index, details |-> "details",
                             measurement |-> IF fault_type = "Nail" THEN "None"
                                             ELSE "0.0"])
        /\ db_out' = [op |-> "log_fault"]

\* Mutant: ORDER BY timestamp ASC.
OrderedDesc_Asc(earlier, later) == earlier.timestamp <= later.timestamp

\* ORDER BY timestamp DESC: a row may come before another one in the result
OrderedDesc(earlier, later) == earlier.timestamp >= later.timestamp

\* get_faults(start_date, end_date, fault_type); 0 is no date, "None" no
\* type.  Rows of one timestamp come in an order SQLite does not fix.
GetFaults ==
    /\ UNCHANGED <<otherThanSvc, relay, pool>>
    /\ \E start_date \in {0, 2}, end_date \in {0, 1},
          fault_type \in {"None", "All", "Nail", "Board Alignment"} :
        LET selected == {i \in 1..Len(db) :
                            /\ start_date # 0 => db[i].timestamp >= 10 * start_date
                            /\ end_date # 0 => db[i].timestamp <= 10 * end_date + 9
                            /\ (fault_type # "None" /\ fault_type # "All")
                                   => db[i].fault_type = fault_type}
            n == Cardinality(selected)
        IN  \E f \in [1..n -> selected] :
                /\ \A j, k \in 1..n : j # k => f[j] # f[k]
                /\ \A j, k \in 1..n : j < k => OrderedDesc(db[f[j]], db[f[k]])
                /\ db_out' = [op |-> "get_faults", start_date |-> start_date,
                              end_date |-> end_date, fault_type |-> fault_type,
                              ret |-> [j \in 1..n |-> db[f[j]]]]
    /\ UNCHANGED db

\* get_statistics(faults), for the faults of an unfiltered query
GetStatistics ==
    /\ UNCHANGED <<otherThanSvc, relay, pool>>
    /\ db_out' = [op |-> "get_statistics",
                  ret |-> [total_faults |-> Len(db),
                           nail_faults |->
                               Cardinality({i \in 1..Len(db) : db[i].fault_type = "Nail"}),
                           board_faults |->
                               Cardinality({i \in 1..Len(db) :
                                               db[i].fault_type = "Board Alignment"})]]
    /\ UNCHANGED db

\* Mutant: a delete that only looks at the timestamp.
DeleteMatches_TimestampOnly(row, timestamp, fault_type, image_index) ==
    row.timestamp = timestamp

\* WHERE timestamp = ? AND fault_type = ? AND image_index = ?
DeleteMatches(row, timestamp, fault_type, image_index) ==
    /\ row.timestamp = timestamp
    /\ row.fault_type = fault_type
    /\ row.image_index = image_index

\* delete_fault(timestamp, fault_type, image_index)
DeleteFault ==
    /\ UNCHANGED <<otherThanSvc, relay, pool>>
    /\ \E timestamp \in Times, fault_type \in {"Nail", "Board Alignment"},
          image_index \in {1, 2} :
        /\ db' = SelectSeq(db, LAMBDA row :
                               ~DeleteMatches(row, timestamp, fault_type, image_index))
        /\ db_out' = [op |-> "delete_fault", timestamp |-> timestamp,
                      fault_type |-> fault_type, image_index |-> image_index,
                      rowcount |-> Len(db) - Len(db')]

\* clear_all_faults()
ClearAllFaults ==
    /\ UNCHANGED <<otherThanSvc, relay, pool>>
    /\ db' = <<>>
    /\ db_out' = [op |-> "clear_all_faults"]

\* Mutant: a measurement is written only when it is truthy.
CsvRow_Truthy(fault) ==
    <<fault.timestamp, fault.fault_type, fault.image_index, fault.details,
      IF fault.measurement \in {"None", "0.0"} THEN "" ELSE fault.measurement>>

\* writer.writerow([fault[0], ..., fault[4] if fault[4] is not None else ""])
CsvRow(fault) ==
    <<fault.timestamp, fault.fault_type, fault.image_index, fault.details,
      IF fault.measurement # "None" THEN fault.measurement ELSE "">>

\* export_to_csv(file_path, faults) for the faults in the order given: the
\* file can be written, open() raises, or a write raises after k rows.
ExportToCsv ==
    /\ UNCHANGED <<otherThanSvc, relay, pool>>
    /\ \E given \in {db, [j \in 1..Len(db) |-> db[Len(db) + 1 - j]]},
          written \in 0..(Len(db) + 2) :
        LET header == <<"Timestamp", "Type", "Image", "Details", "Measurement">>
            rows == <<header>> \o [j \in 1..Len(given) |-> CsvRow(given[j])]
        IN  db_out' = [op |-> "export_to_csv", faults |-> given,
                       raised |-> written < Len(rows) + 1,
                       logged |-> written < Len(rows) + 1,
                       file |-> IF written = 0 THEN <<>>
                                ELSE SubSeq(rows, 1, IF written > Len(rows) THEN Len(rows)
                                                     ELSE written)]
    /\ UNCHANGED db

(***************************************************************************)
(* RelayController (hardware/relay_controller.py).  relay.serial is "None" *)
(* before the first successful connect(), then a port that is "open" or    *)
(* "closed"; relay.written holds the frames the port took, oldest first;   *)
(* op, ret, log and raised describe the last call.                         *)
(***************************************************************************)
\* Bound: the pulses that reach the port.
MaxPulses == 3

\* turn_on() and turn_off(): the command is written when the port is there
\* and open; a write that raises is logged and answered with False.
Send(r, command, write_fails) ==
    IF r.serial # "open"
    THEN [r EXCEPT !.ret = "False", !.log = Append(@, "warning")]
    ELSE IF write_fails
    THEN [r EXCEPT !.ret = "False", !.log = Append(@, "error")]
    ELSE [r EXCEPT !.written = Append(@, command), !.ret = "True",
                   !.log = Append(@, "info")]

\* connect(): serial.Serial(...) opens the port or raises; self.serial is
\* assigned only when it did not raise.
Connect ==
    /\ UNCHANGED <<otherThanSvc, db, db_out, pool>>
    /\ \E opened \in BOOLEAN :
        relay' = IF opened
                 THEN [relay EXCEPT !.serial = "open", !.op = "connect", !.ret = "True",
                                    !.log = <<"info">>, !.raised = FALSE]
                 ELSE [relay EXCEPT !.op = "connect", !.ret = "False",
                                    !.log = <<"error">>, !.raised = FALSE]

\* Mutant: disconnect() without the test of self.serial.
Disconnect_Unguarded ==
    /\ UNCHANGED <<otherThanSvc, db, db_out, pool>>
    /\ relay' = IF relay.serial = "None"
                THEN [relay EXCEPT !.op = "disconnect", !.ret = "None", !.log = <<>>,
                                   !.raised = TRUE]
                ELSE [relay EXCEPT !.serial = "closed", !.op = "disconnect",
                                   !.ret = "None", !.log = <<"info">>, !.raised = FALSE]

\* disconnect(): if self.serial and self.serial.is_open: self.serial.close()
Disconnect ==
    /\ UNCHANGED <<otherThanSvc, db, db_out, pool>>
    /\ relay' = IF relay.serial = "open"
                THEN [relay EXCEPT !.serial = "closed", !.op = "disconnect",
                                   !.ret = "None", !.log = <<"info">>, !.raised = FALSE]
                ELSE [relay EXCEPT !.op = "disconnect", !.ret = "None", !.log = <<>>,
                                   !.raised = FALSE]

\* trigger(duration): if self.turn_on(): sleep; self.turn_off(); log info;
\* else: log error.  The method has no return statement.
Trigger ==
    /\ UNCHANGED <<otherThanSvc, db, db_out, pool>>
    /\ Len(relay.written) + 2 <= 2 * MaxPulses
    /\ \E on_fails \in BOOLEAN, off_fails \in BOOLEAN :
        LET on_command == <<160, 1, 1, 162>>
            off_command == <<160, 1, 0, 161>>
            called == [relay EXCEPT !.op = "trigger", !.log = <<>>, !.raised = FALSE]
            on == Send(called, on_command, on_fails)
            off == Send(on, off_command, off_fails)
        IN  relay' = IF on.ret = "True"
                     THEN [off EXCEPT !.ret = "None", !.log = Append(@, "info")]
                     ELSE [on EXCEPT !.ret = "None", !.log = Append(@, "error")]

(***************************************************************************)
(* CameraManager (camera/camera_manager.py).  pool.available_cameras holds *)
(* the camera objects of the pool, each the device it was created for and  *)
(* whether it is open; found and outcomes are what the last call of        *)
(* initialize_cameras() met, logged the devices it logged an error for.    *)
(***************************************************************************)
\* Bound: the devices an enumeration finds at most.
NumDevices == 3

\* The camera is appended after Open() and PixelFormat.SetValue() returned.
Pooled_Opened(outcome) == outcome # "open_fails"

Pooled(outcome) == outcome = "ok"

\* initialize_cameras(): EnumerateDevices() raises, or it finds some
\* devices; each of them opens and takes the pixel format, or its Open()
\* raises, or its PixelFormat.SetValue() raises.
InitializeCameras ==
    /\ UNCHANGED <<otherThanSvc, db, db_out, relay>>
    /\ \/ pool' = [pool EXCEPT !.op = "initialize_cameras", !.enumerated = FALSE,
                               !.found = 0, !.outcomes = <<>>, !.logged = {},
                               !.ret = <<>>, !.raised = FALSE]
       \/ \E found \in 0..NumDevices :
          \E outcomes \in [1..found -> {"ok", "open_fails", "config_fails"}] :
            LET cameras == [d \in 1..found |-> [device |-> d, open |-> TRUE]]
                kept == SelectSeq(cameras, LAMBDA c : Pooled(outcomes[c.device]))
            IN  pool' = [pool EXCEPT !.available_cameras = kept,
                                     !.op = "initialize_cameras", !.enumerated = TRUE,
                                     !.found = found, !.outcomes = outcomes,
                                     !.logged = {d \in 1..found : outcomes[d] # "ok"},
                                     !.ret = [i \in 1..Len(kept) |-> kept[i].device],
                                     !.raised = FALSE]

\* A worker that holds a camera of the pool stops: camera.Close()
CameraClose ==
    /\ UNCHANGED <<otherThanSvc, db, db_out, relay>>
    /\ \E i \in 1..Len(pool.available_cameras) :
        /\ pool.available_cameras[i].open
        /\ pool' = [pool EXCEPT !.available_cameras[i].open = FALSE, !.op = "Close",
                                !.ret = <<>>, !.closed = {}]

\* Mutant: the cameras are closed and stay in the list.
CleanupCameras_KeepsList ==
    /\ UNCHANGED <<otherThanSvc, db, db_out, relay>>
    /\ pool' = [pool EXCEPT !.available_cameras =
                                [i \in 1..Len(@) |-> [@[i] EXCEPT !.open = FALSE]],
                            !.closed = {pool.available_cameras[i].device :
                                           i \in {j \in 1..Len(pool.available_cameras) :
                                                     pool.available_cameras[j].open}},
                            !.op = "cleanup_cameras", !.ret = <<>>, !.raised = FALSE]

\* cleanup_cameras(): Close() for every camera of the list that is open,
\* then available_cameras.clear()
CleanupCameras ==
    /\ UNCHANGED <<otherThanSvc, db, db_out, relay>>
    /\ pool' = [pool EXCEPT !.available_cameras = <<>>,
                            !.closed = {pool.available_cameras[i].device :
                                           i \in {j \in 1..Len(pool.available_cameras) :
                                                     pool.available_cameras[j].open}},
                            !.op = "cleanup_cameras", !.ret = <<>>, !.raised = FALSE]

\* The services before anything was called on them.
SvcIdle ==
    /\ db = <<>>
    /\ db_out = NoCall
    /\ relay = [serial |-> "None", written |-> <<>>, op |-> "none", ret |-> "None",
                log |-> <<>>, raised |-> FALSE]
    /\ pool = [available_cameras |-> <<>>, op |-> "none", enumerated |-> FALSE,
               found |-> 0, outcomes |-> <<>>, logged |-> {}, closed |-> {},
               ret |-> <<>>, raised |-> FALSE]

(***************************************************************************)
(* The specifications                                                      *)
(***************************************************************************)
\* The slots of the GUI.
Init == HWIdle /\ GuiInit /\ AggInit /\ OutIdle /\ WorkersInit /\ MeasureIdle /\ SvcIdle

Next == GuiNext

Spec == Init /\ [][Next]_vars

\* One hardware-triggered worker with its grab thread.
InitHW == HWInit /\ GuiInit /\ AggInit /\ OutIdle /\ WorkersInit /\ MeasureIdle /\ SvcIdle

SpecHW == InitHW /\ [][HWNext]_vars

\* Threads are scheduled fairly; a handler that has begun runs to its end.
SpecHWFair == SpecHW /\ WF_vars(HWThread) /\ WF_vars(HWHandler)

\* The methods of one worker of each kind.
InitWorkers == HWIdle /\ GuiInit /\ AggInit /\ OutIdle /\ WorkersInit /\ MeasureIdle /\ SvcIdle

SpecWorkers == InitWorkers /\ [][WorkersNext]_vars

\* Frames, dispatches and completions while the four slots run.
InitAgg == HWIdle /\ GuiStarted /\ AggInit /\ OutInit /\ WorkersInit /\ MeasureIdle /\ SvcIdle

SpecAgg == InitAgg /\ [][AggNext]_vars

\* Every slot started, nothing dispatched yet, the relay connected, both
\* models loaded.
InitRun == HWIdle /\ GuiStarted /\ AggInit /\ OutIdle /\ WorkersInit /\ MeasureIdle /\ SvcIdle

\* The four slots started, then stopped and started again while the first
\* slot of each class delivers frames, dispatches run, completions are
\* handled and the sweep timer fires.
SpecRun ==
    /\ InitRun
    /\ [][\/ HandleNailFrame(0)
          \/ EmitBoardFrame(0)
          \/ HandleQueuedBoardFrame(0)
          \/ \E k \in 1..MaxDispatch : DispatchRun(k)
          \/ HandleBatchDetectionResults
          \/ ClickStopNail(0)
          \/ ClickStopBoard(0)
          \/ StopAllDetections
          \/ RunAllDetections
          \/ PeriodicCleanup]_vars

\* SpecRun without start-all and stop-all: the first slot of each class
\* delivers frames and is stopped, the sweep timer fires.
SpecSweep ==
    /\ InitRun
    /\ [][\/ HandleNailFrame(0)
          \/ EmitBoardFrame(0)
          \/ HandleQueuedBoardFrame(0)
          \/ \E k \in 1..MaxDispatch : DispatchRun(k)
          \/ HandleBatchDetectionResults
          \/ ClickStopNail(0)
          \/ ClickStopBoard(0)
          \/ PeriodicCleanup]_vars

\* The timed worker after a start() that succeeded.
WorkersStarted ==
    /\ wk = [k \in Kinds |->
                LET w == [running |-> FALSE, timer |-> FALSE, last_frame |-> "None",
                          camera |-> [open |-> TRUE, grabbing |-> FALSE],
                          retry_count |-> 0, signal |-> "none", frames |-> NoFrames]
                IN  IF k = "timed" THEN WorkerStart(w, "timed", "ok") ELSE w]
    /\ wk_calls = [k \in Kinds |-> IF k = "timed" THEN <<"start">> ELSE <<>>]

\* The hardware-triggered worker with its threads, and the ticks of the timed one.
InitFrames == HWInit /\ GuiInit /\ AggInit /\ OutIdle /\ WorkersStarted /\ MeasureIdle /\ SvcIdle

SpecFrames == InitFrames /\ [][HWNext \/ TimerTick]_vars

\* The fault store on its own, empty at first.
SpecDB ==
    Init /\ [][LogFault \/ GetFaults \/ GetStatistics \/ DeleteFault
                 \/ ClearAllFaults \/ ExportToCsv]_vars

\* The relay controller on its own, never connected at first.
SpecRelay == Init /\ [][Connect \/ Disconnect \/ Trigger]_vars

\* The camera manager on its own, its list empty at first.
SpecPool == Init /\ [][InitializeCameras \/ CameraClose \/ CleanupCameras]_vars

\* One call of draw_detections.
InitMeasure == HWIdle /\ GuiInit /\ AggInit /\ OutIdle /\ WorkersInit /\ MeasureInit /\ SvcIdle

SpecMeasure == InitMeasure /\ [][MeasureCall]_vars


(***************************************************************************)
(* Claims about the slots (Spec)                                           *)
(***************************************************************************)
\* The registered workers bound to camera c, of both classes.
BoundTo(c) ==
    {<<"nail", i>> : i \in {j \in DOMAIN nail_camera_workers :
                                nail_camera_workers[j].camera = c}}
    \cup {<<"board", i>> : i \in {j \in DOMAIN board_camera_workers :
                                    board_camera_workers[j].camera = c}}

\* C1: a camera is bound to at most one registered worker at a time, counted
\* across the nail and the board slots.
C1_DeviceExclusive == \A c \in Cameras : Cardinality(BoundTo(c)) <= 1

\* The step changes no worker registration, device claim or grab thread.
RegistrationsUnchanged ==
    /\ nail_camera_workers' = nail_camera_workers
    /\ board_camera_workers' = board_camera_workers
    /\ nail_cameras' = nail_cameras
    /\ board_cameras' = board_cameras
    /\ board_worker_threads' = board_worker_threads

\* C2: the start of a slot whose selected camera is bound to a registered
\* worker of another slot, of either class, reports an error, registers no
\* worker and leaves every registration and claim as it was.
C2_SecondStartRejected ==
    [][\A i \in Slots :
        /\ (/\ gui_last' = [op |-> "start_nail", slot |-> i]
            /\ i \notin DOMAIN nail_camera_workers
            /\ BoundTo(nail_combo[i]) # {})
           => (gui_errors' # <<>> /\ RegistrationsUnchanged)
        /\ (/\ gui_last' = [op |-> "start_board", slot |-> i]
            /\ i \notin DOMAIN board_camera_workers
            /\ BoundTo(board_combo[i]) # {})
           => (gui_errors' # <<>> /\ RegistrationsUnchanged)]_vars

(***************************************************************************)
(* Claims about the hardware-triggered worker (SpecHW, SpecHWFair)         *)
(***************************************************************************)
\* The positions of run() at the head of an iteration.
LoopHeadPcs == {"while", "is_grabbing", "retrieve"}

\* C3: with no good grab in between, the 3rd non-timeout grab failure, and
\* neither the 1st nor the 2nd, starts a full restart: the worker is inside
\* _restart_camera only with exactly max_retries failures behind it, the 3rd
\* failure always leads there, and at the head of every iteration the counter
\* equals the failures since the last good grab or restart (0 after a restart).
C3_ThirdFailureRestarts ==
    /\ hw_fails \in 0..max_retries
    /\ (hw_pc \in RestartPcs => hw_fails = max_retries)
    /\ (hw_fails = max_retries =>
            hw_pc \in RestartPcs \cup {"failed_emit", "raised_emit", "handle_error"})
    /\ (hw_pc \in LoopHeadPcs => hw_retry_count = hw_fails /\ hw_fails < max_retries)

\* A second restart begins: three more failures after a restart that succeeded.
C3_Witness ==
    /\ hw_restarted
    /\ hw_pc = "restart_stop_grabbing"
    /\ hw_fails = max_retries

\* C4: retry_count stays within 0..max_retries, and holds max_retries only
\* inside _handle_error, from the increment to the reset after the restart.
C4_RetryCountBounded ==
    /\ hw_retry_count \in 0..max_retries
    /\ (hw_retry_count = max_retries => hw_pc \in RestartPcs \cup {"reset_retry"})

C4_Witness == hw_retry_count = max_retries /\ hw_pc = "reset_retry"

\* C5: once stop() and the join of _stop_camera have returned, the device is
\* closed and not grabbing, whatever the grab thread was doing meanwhile.
C5_StopLeavesDeviceClosed ==
    hw_main = "stopped" => ~hw_cam.open /\ ~hw_cam.grabbing

\* C6: once stop() has cleared the running flag the grab thread terminates,
\* and the join of _stop_camera returns.
C6_StopTerminatesThread ==
    /\ (hw_main \notin {"new", "started", "spawned"}) ~> (hw_pc = "done")
    /\ (hw_main = "join") ~> (hw_main = "stopped")

\* stop() has run to the join while the thread sleeps inside _restart_camera.
C6_Witness == hw_main = "join" /\ hw_pc = "restart_sleep" /\ ~hw_running

(***************************************************************************)
(* Claims about the methods of the workers (SpecWorkers)                   *)
(***************************************************************************)
WorkerIsStopped(w) ==
    /\ ~w.running
    /\ ~w.timer
    /\ ~w.camera.open
    /\ ~w.camera.grabbing
    /\ w.last_frame = "None"

EndsWithStop(calls) == calls # <<>> /\ calls[Len(calls)] = "stop"

\* C7: after stop() on a worker of either kind, started or not, running is
\* false, the timer is stopped, the device is closed and not grabbing and
\* last_frame is None; a stop() that follows a stop() changes nothing.
C7_StopIdempotent ==
    [][\A k \in Kinds :
        /\ EndsWithStop(wk_calls'[k]) => WorkerIsStopped(wk'[k])
        /\ (EndsWithStop(wk_calls[k]) /\ wk_calls'[k] = <<"stop", "stop">>)
           => wk'[k] = wk[k]]_vars

\* Both workers have been stopped twice in a row.
C7_Witness == \A k \in Kinds : wk_calls[k] = <<"stop", "stop">> /\ WorkerIsStopped(wk[k])

(***************************************************************************)
(* Claims about the handling of completions (SpecAgg)                      *)
(***************************************************************************)
\* The step handles a completion with a result of the given class.
Handles(detector_type) ==
    /\ agg_last'.seq = agg_last.seq + 1
    /\ agg_last'.detector_type = detector_type
    /\ ~agg_last'.result.absent

\* C8: handling a nail result without boxes inserts no fault record and
\* does not call the relay; handling one with n >= 1 boxes inserts exactly
\* one record ("Nail", slot + 1, "Detected n nails") and calls trigger()
\* exactly once, which on a connected relay whose writes succeed writes the
\* on frame and the off frame once each.
C8_NailOutcome ==
    [][Handles("nail") =>
        LET n == Len(agg_last'.result.boxes)
            record == [fault_type |-> "Nail",
                       image_index |-> agg_last'.image_index + 1,
                       details |-> <<"Detected", n, "nails">>,
                       measurement |-> None]
        IN  IF n = 0
            THEN /\ faults' = faults
                 /\ agg_last'.triggers = 0
                 /\ relay_writes' = relay_writes
            ELSE /\ faults' = Append(faults, record)
                 /\ agg_last'.triggers = 1
                 /\ relay_writes' \in {relay_writes, Append(relay_writes, "on"),
                                       relay_writes \o <<"on", "off">>}
                 /\ (relay_connected /\ agg_last'.relay = "ok")
                    => relay_writes' = relay_writes \o <<"on", "off">>]_vars

\* A nail result with two boxes for slot 1 was handled as the first completion.
C8_Witness ==
    /\ agg_last.detector_type = "nail"
    /\ agg_last.image_index = 1
    /\ Len(agg_last.result.boxes) = 2
    /\ agg_last.triggers = 1
    /\ Len(faults) = 1
    /\ faults[1].image_index = 2
    /\ relay_writes = <<"on", "off">>

\* C9: handling a board result with at least two boxes whose measurement is
\* out of tolerance inserts exactly one record "Board Alignment" with image
\* index slot + 1 and the measurement; any other board result inserts none.
C9_BoardOutcome ==
    [][Handles("board") =>
        LET boxes == agg_last'.result.boxes
            out_of_tolerance ==
                Len(boxes) >= 2 /\ Measure(boxes, settings).is_measurement_defect
        IN  IF out_of_tolerance
            THEN /\ Len(faults') = Len(faults) + 1
                 /\ SubSeq(faults', 1, Len(faults)) = faults
                 /\ faults'[Len(faults')].fault_type = "Board Alignment"
                 /\ faults'[Len(faults')].image_index = agg_last'.image_index + 1
                 /\ faults'[Len(faults')].measurement =
                        Measure(boxes, settings).avg_measurement
            ELSE faults' = faults]_vars

(***************************************************************************)
(* Claims about the board measurement (SpecMeasure)                        *)
(***************************************************************************)
\* C10: where draw_detections measures, with box1 and box2 its reference
\* boxes, the measurement is ((box2.x2 - box1.x2) + (box2.x1 - box1.x1)) *
\* pixels_to_mm / 2 and the outcome is a defect iff |measurement - target|
\* > threshold, so not when the difference equals the threshold; the boxes
\* (10,0,50,100) and (200,0,260,100) at 0.1 mm per pixel measure 20.0 mm,
\* no defect for target 20 and threshold 5, a defect for target 10.
C10_Measurement ==
    (m_out.called /\ m_out.m.measured) =>
        LET box1 == m_out.m.box1
            box2 == m_out.m.box2
            measurement == m_out.m.avg_measurement
            target == m_settings.target_measurement_mm
            threshold == m_settings.measurement_threshold_mm
            is_defect == m_out.m.is_measurement_defect
        IN  /\ \E i, j \in 1..Len(m_boxes) : box1 = m_boxes[i] /\ box2 = m_boxes[j]
            /\ 2 * measurement =
                   ((box2[3] - box1[3]) + (box2[1] - box1[1])) * m_settings.pixels_to_mm
            /\ is_defect <=> Abs(measurement - target) > threshold
            /\ Abs(measurement - target) = threshold => ~is_defect
            /\ (/\ m_boxes = <<<<10, 0, 50, 100>>, <<200, 0, 260, 100>>>>
                /\ m_settings.pixels_to_mm = 2)
               => /\ measurement = Mm(20)
                  /\ (target = Mm(20) /\ threshold = Mm(5)) => ~is_defect
                  /\ (target = Mm(10) /\ threshold = Mm(5)) => is_defect

\* The example boxes measured against a target of 15 mm: the difference
\* equals the threshold of 5 mm and the outcome is no defect.
C10_Witness ==
    /\ m_out.called
    /\ m_out.m.measured
    /\ m_boxes = <<<<10, 0, 50, 100>>, <<200, 0, 260, 100>>>>
    /\ m_settings.target_measurement_mm = Mm(15)
    /\ m_out.m.measurement_diff = m_settings.measurement_threshold_mm
    /\ ~m_out.m.is_measurement_defect


(***************************************************************************)
(* Board outcomes with fewer than two boxes                                *)
(***************************************************************************)
\* C11: when a board outcome with no box or one box is handled, nothing is
\* measured (draw_detections would not measure it even for a board label,
\* so no defect is determined), no fault record is inserted and the relay is
\* not pulsed.
C11_FewBoxesNoMeasurement ==
    [][(Handles("board") /\ Len(agg_last'.result.boxes) < 2)
           => /\ ~agg_last'.measured
              /\ \A board_label \in BOOLEAN :
                    LET m == DrawDetections(board_images[agg_last'.image_index],
                                            agg_last'.result.boxes,
                                            board_label, settings, FALSE).m
                    IN  ~m.measured /\ ~m.is_measurement_defect
              /\ faults' = faults
              /\ relay_writes' = relay_writes
              /\ agg_last'.triggers = 0]_vars

C11_Witness ==
    /\ agg_last.detector_type = "board"
    /\ Len(agg_last.result.boxes) = 1
    /\ board_images[agg_last.image_index] # None
    /\ faults = <<>>
    /\ relay_writes = <<>>

(***************************************************************************)
(* The completion of a dispatch                                            *)
(***************************************************************************)
\* The k-th tracked dispatch finishes its run() in this step.
Finishes(k) ==
    /\ k \in 1..Len(workers)
    /\ k \in 1..Len(workers')
    /\ workers[k].running
    /\ ~workers'[k].running

\* C12: the run() of a dispatch delivers exactly one completion tuple, with
\* the class and the slot indices of the request: the model's result with
\* the measured time, or, when something failed, one absent value for each
\* input image and the time 0.  A dispatch that has finished does not run
\* again, and a tuple is only ever delivered by a dispatch that finishes.
C12_OneCompletionPerDispatch ==
    [][/\ \A k \in 1..Len(workers) :
            /\ Finishes(k) =>
                 /\ Len(completions') = Len(completions) + 1
                 /\ LET ev == completions'[Len(completions')]
                        w == workers[k]
                        failed == \E i \in DOMAIN ev.results_list :
                                      ev.results_list[i].absent
                    IN  /\ ev.detector_type = w.detector_type
                        /\ ev.image_indices = w.image_indices
                        /\ Len(ev.results_list) = Len(w.images)
                        /\ failed =>
                             /\ \A i \in DOMAIN ev.results_list :
                                    ev.results_list[i] = NoResult
                             /\ ev.inference_time = 0
                        /\ ~failed =>
                             /\ \A i \in DOMAIN ev.results_list :
                                    ev.results_list[i] \in ResultSet
                             /\ ev.inference_time > 0
            /\ (~workers[k].running /\ k \in 1..Len(workers')) => ~workers'[k].running
       /\ Len(completions') > Len(completions) => \E k \in 1..Len(workers) : Finishes(k)
      ]_vars

C12_Witness ==
    /\ Len(workers) = 2
    /\ ~workers[1].running
    /\ ~workers[2].running
    /\ Len(completions) = 2
    /\ completions[1].results_list = <<NoResult>>
    /\ completions[1].inference_time = 0
    /\ ~completions[2].results_list[1].absent
    /\ completions[2].inference_time > 0

(***************************************************************************)
(* Absent outcomes                                                         *)
(***************************************************************************)
\* C13: when the outcome that reaches the aggregator is absent, nothing is
\* classified for its slot: the stored results of both classes stay as they
\* were, no fault record is inserted, the relay is not pulsed and nothing is
\* measured.  A completion carries the outcome of one image, so no other
\* outcome shares the completion of an absent one.
C13_AbsentOutcomeIgnored ==
    [][(agg_last'.seq = agg_last.seq + 1 /\ agg_last'.result.absent)
           => /\ nail_results' = nail_results
              /\ board_results' = board_results
              /\ faults' = faults
              /\ relay_writes' = relay_writes
              /\ agg_last'.triggers = 0
              /\ ~agg_last'.measured
              /\ Len(Head(completions).results_list) = 1]_vars

C13_Witness ==
    /\ agg_last.seq = 2
    /\ agg_last.result.absent
    /\ agg_last.detector_type = "nail"
    /\ ~nail_results[agg_last.image_index].absent
    /\ Len(faults) = 1

(***************************************************************************)
(* Frame and result pairing                                                *)
(***************************************************************************)
\* C14: a result is applied only to the slot and the class it was dispatched
\* for, and a result with boxes is drawn onto the frame that was sent to the
\* detector with that dispatch, whatever happened to the slot's buffer since.
C14_FramePairing ==
    [][(agg_last'.seq = agg_last.seq + 1 /\ ~agg_last'.result.absent)
           => LET ev == Head(completions)
                  image_index == ev.image_indices[1]
                  image == IF ev.detector_type = "nail"
                           THEN nail_images[image_index]
                           ELSE board_images[image_index]
              IN  /\ ev.detector_type = "nail" =>
                        /\ nail_results' = [nail_results EXCEPT
                                               ![image_index] = ev.results_list[1]]
                        /\ board_results' = board_results
                  /\ ev.detector_type = "board" =>
                        /\ board_results' = [board_results EXCEPT
                                                ![image_index] = ev.results_list[1]]
                        /\ nail_results' = nail_results
                  /\ Len(ev.results_list[1].boxes) > 0 => image = ev.sent]_vars

(***************************************************************************)
(* The image of a frame-ready event                                        *)
(***************************************************************************)
\* C15: the image emitted last by either worker reads as it did when it was
\* emitted, whatever has happened to the worker's grab buffer since (it was
\* released, or the driver wrote a newer image into it).
C15_NoAliasing ==
    /\ hw_frames.ref # "none" => Seen(hw_frames) = hw_frames.sent
    /\ wk["timed"].frames.ref # "none"
           => Seen(wk["timed"].frames) = wk["timed"].frames.sent

\* The grab thread has emitted image 1 and the driver has since written
\* image 2 into the buffer; the timed worker has emitted its second image and
\* released the buffer.
C15_Witness ==
    /\ hw_frames.sent = 1
    /\ hw_frames.grab = 2
    /\ wk["timed"].frames.sent = 2
    /\ wk["timed"].frames.grab = 0

(***************************************************************************)
(* A restart that fails                                                    *)
(***************************************************************************)
\* Where the grab thread can be once a restart has failed: on its way back
\* out of _handle_error() to the test of the loop, or past the loop.
AfterFailedRestartPcs == {"reset_retry", "raised_sleep", "while", "done"}

\* C16: when a full restart fails the worker emits an error and running
\* becomes false; from then on running stays false, the grab thread is only
\* ever on its way to the end of the loop (no grab, no retry sleep, no
\* restart), no frame is emitted, and the thread reaches the end of run().
C16_FailedRestartStops ==
    /\ [][hw_fatal' = "restart"
            => /\ ~hw_running'
               /\ hw_pc' \in AfterFailedRestartPcs
               /\ hw_signal' # "frame_ready"
               /\ hw_frames' = hw_frames
               /\ hw_fatal # "restart" => hw_signal' = "error_occurred"]_vars
    /\ (hw_fatal = "restart") ~> (hw_pc = "done")

\* The restart failed and the loop ended with no stop requested.
C16_Witness ==
    /\ hw_fatal = "restart"
    /\ hw_pc = "done"
    /\ hw_main = "spawned"
    /\ ~hw_running

(***************************************************************************)
(* Grab timeouts                                                           *)
(***************************************************************************)
\* RetrieveResult() times out in this step: the retrieval ends without a
\* frame and without a failure being counted.
TimesOut ==
    /\ hw_pc = "retrieve"
    /\ hw_pc' # "retrieve"
    /\ hw_pc' # "emit"
    /\ hw_fails' = hw_fails

\* C17: a grab timeout takes the grab thread to the sleep of the timeout
\* branch and from there back to the test of the loop; neither step emits an
\* error, changes retry_count, the running flag or the device, or enters
\* _handle_error() or a restart.
C17_TimeoutBenign ==
    [][/\ TimesOut =>
            /\ hw_pc' = "timeout_sleep"
            /\ hw_signal' = "none"
            /\ hw_retry_count' = hw_retry_count
            /\ hw_running' = hw_running
            /\ hw_cam' = hw_cam
       /\ (hw_pc = "timeout_sleep" /\ hw_pc' # hw_pc) =>
            /\ hw_pc' = "while"
            /\ hw_signal' = "none"
            /\ hw_retry_count' = hw_retry_count
            /\ hw_running' = hw_running
            /\ hw_cam' = hw_cam
            /\ hw_restarted' = hw_restarted
            /\ hw_fatal' = hw_fatal]_vars

\* A timeout after two counted failures: the count is still 2.
C17_Witness ==
    /\ hw_pc = "timeout_sleep"
    /\ hw_retry_count = 2
    /\ hw_running
    /\ hw_cam.grabbing

FailedTickStep ==
    /\ wk_calls'["timed"] # <<>>
    /\ wk_calls'["timed"][Len(wk_calls'["timed"])] = "grab_frame"
    /\ wk_calls'["timed"] # wk_calls["timed"] \/ wk'["timed"] # wk["timed"]
    /\ wk["timed"].running
    /\ wk["timed"].camera.open
    /\ wk'["timed"].signal # "frame_ready"

\* C19: a tick of the timed worker whose grab does not succeed or raises
\* emits one error and changes nothing else of the worker but the release of
\* the grab result: no retry count, no restart, the device neither closed
\* nor reopened, running and the timer still set, so that the next tick
\* grabs again.
C19_FailedTickOnlyReports ==
    [][FailedTickStep =>
          /\ wk'["timed"].signal = "error_occurred"
          /\ wk'["timed"].running
          /\ wk'["timed"].timer
          /\ wk'["timed"].camera = wk["timed"].camera
          /\ wk'["timed"].retry_count = wk["timed"].retry_count
          /\ wk'["timed"].last_frame = wk["timed"].last_frame
          /\ wk'["timed"].frames.sent = wk["timed"].frames.sent
          /\ wk'["hw"] = wk["hw"]]_vars

\* Two ticks in a row have failed and the worker still runs.
C19_Witness ==
    /\ wk_calls["timed"] = <<"grab_frame", "grab_frame">>
    /\ wk["timed"].signal = "error_occurred"
    /\ wk["timed"].running
    /\ wk["timed"].timer
    /\ wk["timed"].camera.grabbing

(***************************************************************************)
(* Failures that leave a handler                                           *)
(***************************************************************************)
\* C20: no handling of a completion ends with an exception leaving
\* handle_batch_detection_results (the grab loop, the tick and the run() of a
\* dispatch catch theirs in the model by construction of their except
\* clauses).
C20_NoUnhandledException == ~agg_last.raised

\* The number of times a row occurs in a sequence of rows.
Occurrences(row, rows) == Cardinality({i \in 1..Len(rows) : rows[i] = row})

\* A query without filters: no dates, and the fault type absent or "All".
Unfiltered ==
    /\ db_out.op = "get_faults"
    /\ db_out.start_date = 0
    /\ db_out.end_date = 0
    /\ db_out.fault_type \in {"None", "All"}

\* C21: a query without filters (no dates, fault type absent or "All")
\* returns exactly the records that were inserted, each as often as it was
\* inserted, ordered by timestamp descending (newest first).
C21_UnfilteredQuery ==
    Unfiltered =>
        /\ Len(db_out.ret) = Len(db)
        /\ \A i \in 1..Len(db) : Occurrences(db[i], db_out.ret) = Occurrences(db[i], db)
        /\ \A j, k \in 1..Len(db_out.ret) :
               j < k => db_out.ret[j].timestamp >= db_out.ret[k].timestamp

\* Two records inserted oldest first come back newest first.
C21_Witness ==
    /\ Unfiltered
    /\ Len(db) = 2
    /\ db[1].timestamp < db[2].timestamp
    /\ db_out.ret = <<db[2], db[1]>>

\* C22: the table changes only as follows: an insert appends exactly one
\* record and changes no existing one; delete(timestamp, faultType, slotIndex)
\* removes every record that matches all three fields and no other one;
\* clearAll removes everything; query, statistics and export leave the table
\* as it is.  No call changes a field of a record it keeps.
C22_StoreFrame ==
    [][/\ db_out'.op = "log_fault" =>
              /\ Len(db') = Len(db) + 1
              /\ SubSeq(db', 1, Len(db)) = db
       /\ db_out'.op = "delete_fault" =>
              db' = SelectSeq(db, LAMBDA row :
                                  \/ row.timestamp # db_out'.timestamp
                                  \/ row.fault_type # db_out'.fault_type
                                  \/ row.image_index # db_out'.image_index)
       /\ db_out'.op = "clear_all_faults" => db' = <<>>
       /\ db_out'.op \in {"get_faults", "get_statistics", "export_to_csv"} => db' = db
       /\ db_out'.op \in {"log_fault", "delete_fault", "clear_all_faults", "get_faults",
                          "get_statistics", "export_to_csv"}]_vars

\* A delete removed one record and kept one that has the same timestamp and
\* type but another slot.
C22_Witness ==
    /\ db_out.op = "delete_fault"
    /\ db_out.rowcount = 1
    /\ Len(db) = 1
    /\ db[1].timestamp = db_out.timestamp
    /\ db[1].fault_type = db_out.fault_type
    /\ db[1].image_index # db_out.image_index

\* The file a complete export of the given records holds: the fixed header,
\* then one row per record in the order given.
ExpectedCsv(given) ==
    <<<<"Timestamp", "Type", "Image", "Details", "Measurement">>>>
        \o [j \in 1..Len(given) |->
               <<given[j].timestamp, given[j].fault_type, given[j].image_index,
                 given[j].details,
                 IF given[j].measurement = "None" THEN "" ELSE given[j].measurement>>]

\* C25: an export that fails is reported to the caller (the exception is
\* raised again after it was logged); an export that succeeds has written the
\* header Timestamp,Type,Image,Details,Measurement and then one row per record
\* in input order, with an empty string where the measurement is absent.
C25_CsvExport ==
    db_out.op = "export_to_csv" =>
        /\ db_out.file # ExpectedCsv(db_out.faults) => db_out.raised
        /\ db_out.raised => db_out.logged
        /\ ~db_out.raised => db_out.file = ExpectedCsv(db_out.faults)

\* A successful export of a record with a measurement of 0.0 followed by one
\* without a measurement, given in the reverse of the table's order.
C25_Witness ==
    /\ db_out.op = "export_to_csv"
    /\ ~db_out.raised
    /\ Len(db_out.faults) = 2
    /\ db_out.faults # db
    /\ db_out.faults[1].measurement = "0.0"
    /\ db_out.faults[2].measurement = "None"
    /\ db_out.file[2][5] = "0.0"
    /\ db_out.file[3][5] = ""

\* C23: a pulse on a connected relay writes the on frame {0xA0,0x01,0x01,0xA2}
\* and then the off frame {0xA0,0x01,0x00,0xA1}, in that order, exactly once
\* each; when the relay is not connected or the write of the on frame fails,
\* no off frame is written and the failure is logged and returned to the
\* caller, never raised.
C23_Pulse ==
    [][relay'.op = "trigger" =>
          /\ (relay.serial = "open" /\ relay'.log = <<"info", "info", "info">>)
                 => relay'.written = relay.written
                                        \o <<<<160, 1, 1, 162>>, <<160, 1, 0, 161>>>>
          /\ (relay.serial # "open" \/ relay'.log[1] = "error")
                 => /\ relay'.written = relay.written
                    /\ \E i \in 1..Len(relay'.log) : relay'.log[i] \in {"warning", "error"}
                    /\ relay'.ret = "False"
                    /\ ~relay'.raised]_vars

\* C24: disconnect() raises no error and leaves the connection closed in
\* every state (never connected, connect failed, connected, already
\* disconnected); a second disconnect changes nothing.
C24_DisconnectIdempotent ==
    [][relay'.op = "disconnect" =>
          /\ ~relay'.raised
          /\ relay'.serial # "open"
          /\ relay.serial # "open" => relay'.serial = relay.serial
          /\ relay'.written = relay.written]_vars

\* A disconnect that found the port already closed by an earlier one.
C24_Witness ==
    /\ relay.op = "disconnect"
    /\ relay.serial = "closed"
    /\ relay.log = <<>>
    /\ ~relay.raised

\* C26: enumeration is never aborted by a single device: a device whose open
\* or baseline pixel-format configuration fails is logged and skipped, and
\* the pool ends up holding exactly the devices that opened and configured
\* successfully, in enumeration order; a failure of the enumeration itself
\* returns an empty list instead of raising.
C26_Enumeration ==
    pool.op = "initialize_cameras" =>
        /\ ~pool.raised
        /\ ~pool.enumerated => pool.ret = <<>>
        /\ pool.enumerated =>
               /\ \A d \in 1..pool.found :
                      /\ (\E i \in 1..Len(pool.available_cameras) :
                              pool.available_cameras[i].device = d)
                             <=> pool.outcomes[d] = "ok"
                      /\ d \in pool.logged <=> pool.outcomes[d] # "ok"
               /\ \A i \in 1..Len(pool.available_cameras) :
                      /\ pool.available_cameras[i].device \in 1..pool.found
                      /\ pool.available_cameras[i].open
                      /\ pool.ret[i] = pool.available_cameras[i].device
               /\ Len(pool.ret) = Len(pool.available_cameras)
               /\ \A i, j \in 1..Len(pool.ret) : i < j => pool.ret[i] < pool.ret[j]

\* The first device does not open, the second does not take the pixel
\* format, the third is pooled.
C26_Witness ==
    /\ pool.op = "initialize_cameras"
    /\ pool.enumerated
    /\ pool.outcomes = <<"open_fails", "config_fails", "ok">>
    /\ pool.ret = <<3>>

\* C27: releaseAll closes every open device of the pool and empties the
\* pool; called a second time it raises no error and changes nothing.
C27_ReleaseAll ==
    [][pool'.op = "cleanup_cameras" =>
          /\ ~pool'.raised
          /\ pool'.available_cameras = <<>>
          /\ \A i \in 1..Len(pool.available_cameras) :
                 pool.available_cameras[i].open
                     <=> pool.available_cameras[i].device \in pool'.closed
          /\ pool.op = "cleanup_cameras" =>
                 /\ pool'.closed = {}
                 /\ pool'.available_cameras = pool.available_cameras]_vars

\* Three cameras were pooled, a worker closed the second, and the release
\* closed the other two.
C27_Witness ==
    /\ pool.op = "cleanup_cameras"
    /\ pool.outcomes = <<"ok", "ok", "ok">>
    /\ pool.closed = {1, 3}
    /\ pool.available_cameras = <<>>

(***************************************************************************)
(* The reference boxes of the board measurement (SpecMeasure)              *)
(***************************************************************************)
\* C28: where draw_detections measures, box1 is the box with the smallest x1
\* and box2 the box with the largest x1; among boxes of equal x1 the sort is
\* stable, so box1 is the earliest such box in detection order and box2 the
\* latest; the boxes between them do not enter the measurement.
C28_ReferenceBoxes ==
    (m_out.called /\ m_out.m.measured) =>
        LET idx == 1..Len(m_boxes)
            smallest == {i \in idx : \A j \in idx : m_boxes[i][1] <= m_boxes[j][1]}
            largest == {i \in idx : \A j \in idx : m_boxes[i][1] >= m_boxes[j][1]}
            first == CHOOSE i \in smallest : \A j \in smallest : i <= j
            last == CHOOSE i \in largest : \A j \in largest : i >= j
        IN  /\ m_out.m.box1 = m_boxes[first]
            /\ m_out.m.box2 = m_boxes[last]
            /\ 2 * m_out.m.avg_measurement =
                   ((m_boxes[last][3] - m_boxes[first][3])
                        + (m_boxes[last][1] - m_boxes[first][1])) * m_settings.pixels_to_mm

\* Three boxes: the first and the third share the smallest x1 and differ in
\* width, the second has the largest x1; box1 is the first, box2 the second.
C28_Witness ==
    /\ m_out.called
    /\ m_out.m.measured
    /\ Len(m_boxes) = 3
    /\ m_boxes[1][1] = m_boxes[3][1]
    /\ m_boxes[1] # m_boxes[3]
    /\ m_boxes[2][1] > m_boxes[1][1]
    /\ m_out.m.box1 = m_boxes[1]
    /\ m_out.m.box2 = m_boxes[2]

(***************************************************************************)
(* Dispatch on a ready frame and the timing counters (SpecAgg)             *)
(***************************************************************************)
\* The step handles a ready frame of the slot: its buffer takes a new frame.
FrameReady(images, cam_index) ==
    /\ images'[cam_index] # images[cam_index]
    /\ images'[cam_index] # None

\* The dispatch a ready frame of the slot starts when the model is loaded.
DispatchFor(frame, detector_type, cam_index, conf) ==
    [detector_type |-> detector_type, images |-> <<frame>>,
     image_indices |-> <<cam_index>>, conf |-> conf, running |-> TRUE]

\* C29: each ready frame handled while the model of its class is loaded
\* starts exactly one detection dispatch, with that frame only, the class of
\* the producing worker (nail for timed slots, board for hardware-triggered
\* slots), slotIndices = [that slot] and the confidence threshold of that
\* class; when the model is not loaded no dispatch is started and the frame
\* is only stored.
C29_OneDispatchPerFrame ==
    [][\A cam_index \in 0..(NumSlots - 1) :
          /\ FrameReady(nail_images, cam_index) =>
                 workers' = IF models.nail
                            THEN Append(workers,
                                        DispatchFor(nail_images'[cam_index], "nail",
                                                    cam_index, settings.nail_confidence))
                            ELSE workers
          /\ FrameReady(board_images, cam_index) =>
                 workers' = IF models.board
                            THEN Append(workers,
                                        DispatchFor(board_images'[cam_index], "board",
                                                    cam_index, settings.board_confidence))
                            ELSE workers]_vars

\* A board frame and then a nail frame were dispatched, each with its slot,
\* its frame and the threshold of its class.
C29_Witness ==
    /\ Len(workers) = 2
    /\ workers[1].detector_type = "board"
    /\ workers[1].conf = 50
    /\ workers[1].images = <<board_images[workers[1].image_indices[1]]>>
    /\ workers[2].detector_type = "nail"
    /\ workers[2].conf = 25
    /\ workers[2].images = <<nail_images[workers[2].image_indices[1]]>>

\* The step is a start-all action.
StartsAll == run_btn = "start_all" /\ run_btn' = "stop_all"

\* C30: completed_detections and total_inference_time are set to 0 only by a
\* start-all action; stop-all, starting or stopping a single slot, the
\* periodic sweep and the logging of the timing summary leave them as they
\* are, and each completion with at least one non-absent outcome adds
\* len(slotIndices) and the elapsed time to them.
C30_CounterFrame ==
    [][IF agg_last'.seq = agg_last.seq + 1 /\ ~agg_last'.result.absent
       THEN /\ completed_detections' =
                   completed_detections + Len(Head(completions).image_indices)
            /\ total_inference_time' =
                   total_inference_time + Head(completions).inference_time
       ELSE IF StartsAll
       THEN /\ completed_detections' = 0
            /\ total_inference_time' = 0
       ELSE /\ completed_detections' = completed_detections
            /\ total_inference_time' = total_inference_time]_vars

(***************************************************************************)
(* The timing summary (SpecAgg, whose first state is the one a start-all   *)
(* action leaves)                                                          *)
(***************************************************************************)
\* Every dispatch started since the start-all action has run and its
\* completion has been handled.
AllCompleted ==
    /\ workers # <<>>
    /\ \A k \in 1..Len(workers) : ~workers[k].running
    /\ completions = <<>>

\* C31: after a start-all action the timing summary is logged when the
\* number of completed detections reaches the number of detections
\* dispatched for that action: once every dispatch started since the action
\* has completed, the summary has been logged for that total.
C31_SummaryLogged ==
    AllCompleted =>
        /\ agg_last.summary
        /\ completed_detections = Len(workers)

(***************************************************************************)
(* The periodic sweep, and what happens after a stop (SpecSweep, SpecRun)  *)
(***************************************************************************)
\* The step is a run of the periodic sweep: it is the only step that drops
\* a tracked dispatch while the run button stays as it is, and the only one
\* that clears an image while the worker maps stay as they are.
Sweeps ==
    /\ run_btn' = run_btn
    /\ nail_camera_workers' = nail_camera_workers
    /\ board_camera_workers' = board_camera_workers
    /\ \/ Len(workers') < Len(workers)
       \/ \E i \in Slots : nail_images[i] # None /\ nail_images'[i] = None
       \/ \E i \in Slots : board_images[i] # None /\ board_images'[i] = None

\* C32: the periodic sweep removes from the tracked dispatches exactly those
\* that no longer run, and clears the frame buffer of exactly the slots that
\* have no registered worker; it leaves the frame buffer of every slot with
\* a registered worker, the last results, the worker maps, the device claims
\* and the run counters as they are.
C32_SweepFrame ==
    [][Sweeps =>
          /\ workers' = SelectSeq(workers, LAMBDA w : w.running)
          /\ \A i \in Slots :
                /\ nail_images'[i] = IF i \in DOMAIN nail_camera_workers
                                     THEN nail_images[i] ELSE None
                /\ board_images'[i] = IF i \in DOMAIN board_camera_workers
                                      THEN board_images[i] ELSE None
          /\ UNCHANGED <<nail_results, board_results, nail_camera_workers,
                         board_camera_workers, board_worker_threads, nail_cameras,
                         board_cameras, completed_detections, total_inference_time,
                         faults, relay_writes, completions>>]_vars

\* After a sweep: the first board dispatch has completed and was dropped;
\* the second one, started for a frame that was handled after the stop of
\* the slot (it is frame 1 again), still runs and is kept; the image that
\* frame had left is cleared.
C32_Witness ==
    /\ 0 \notin DOMAIN board_camera_workers
    /\ board_images[0] = None
    /\ dispatched = 2
    /\ Len(workers) = 1
    /\ workers[1].running
    /\ workers[1].detector_type = "board"
    /\ workers[1].images = <<1>>
    /\ ~board_results[0].absent
    /\ 0 \in DOMAIN nail_camera_workers

(***************************************************************************)
(* The timed worker once stopped                                           *)
(***************************************************************************)
\* The call made last on the timed worker
LastTimedCall(calls) ==
    IF calls["timed"] = <<>> THEN "none" ELSE calls["timed"][Len(calls["timed"])]

\* grab_frame() is called in this step while running is false or the device
\* is closed.
IdleTickStep ==
    /\ LastTimedCall(wk_calls') = "grab_frame"
    /\ wk_calls'["timed"] # wk_calls["timed"] \/ wk'["timed"] # wk["timed"]
    /\ ~(wk["timed"].running /\ wk["timed"].camera.open)

\* C33: once stop() of the timed worker has returned, running is false, the
\* timer is stopped and the device is closed, and as long as start() is not
\* called no step retrieves a grab result or emits frame_ready or
\* error_occurred; a tick that fires while running is false or the device
\* is closed leaves the worker as it is and emits nothing.
C33_StoppedTimerSilent ==
    [][/\ LastTimedCall(wk_calls') = "stop" =>
            /\ ~wk'["timed"].running
            /\ ~wk'["timed"].timer
            /\ ~wk'["timed"].camera.open
            /\ wk'["timed"].signal = "none"
       /\ (LastTimedCall(wk_calls) = "stop" /\ LastTimedCall(wk_calls') # "start") =>
            /\ LastTimedCall(wk_calls') = "stop"
            /\ wk'["timed"].frames = wk["timed"].frames
            /\ wk'["timed"].signal = "none"
       /\ IdleTickStep =>
            /\ wk'["timed"] = [wk["timed"] EXCEPT !.signal = "none"]
            /\ wk'["hw"] = wk["hw"]]_vars

\* The worker delivered a frame on a tick and was then stopped.
C33_Witness ==
    /\ wk_calls["timed"] = <<"grab_frame", "stop">>
    /\ wk["timed"].frames.sent # 0
    /\ ~wk["timed"].timer
    /\ ~wk["timed"].running

(***************************************************************************)
(* The claims and the registered workers                                   *)
(***************************************************************************)
\* The slots whose registered worker is bound to the camera
SlotsBoundTo(camera, camera_workers) ==
    {i \in DOMAIN camera_workers : camera_workers[i].camera = camera}

\* The list of a class holds the camera exactly when one registered worker
\* of the class is bound to it.
ClaimsMatch(cameras, camera_workers) ==
    \A camera \in Cameras :
        InList(camera, cameras) <=> Cardinality(SlotsBoundTo(camera, camera_workers)) = 1

\* C34: whatever starts, stops, start-alls and stop-alls have happened, with
\* starts that failed among them, a camera is in the in-use list of a class
\* exactly when one registered worker of that class is bound to it, and a
\* stop-all leaves no worker registered and no camera claimed in either
\* class.
C34_ClaimsConsistent ==
    /\ [](/\ ClaimsMatch(nail_cameras, nail_camera_workers)
          /\ ClaimsMatch(board_cameras, board_camera_workers))
    /\ [][(run_btn = "stop_all" /\ run_btn' = "start_all") =>
             /\ DOMAIN nail_camera_workers' = {}
             /\ DOMAIN board_camera_workers' = {}
             /\ nail_cameras' = <<>>
             /\ board_cameras' = <<>>]_vars

\* Start-all has run; the nail worker of slot 0 failed to start and is
\* registered with its camera claimed, the board worker of slot 1 runs.
C34_Witness ==
    /\ run_btn = "stop_all"
    /\ 0 \in DOMAIN nail_camera_workers
    /\ ~nail_camera_workers[0].running
    /\ InList(nail_camera_workers[0].camera, nail_cameras)
    /\ 1 \in DOMAIN board_camera_workers
    /\ board_camera_workers[1].running
    /\ Len(board_cameras) = Cardinality(DOMAIN board_camera_workers)

(***************************************************************************)
(* Events that arrive after the stop of their slot (SpecSweep: every slot  *)
(* was started and none is started again, so a slot without a registered   *)
(* worker is a slot that was stopped)                                      *)
(***************************************************************************)
\* C35: once a slot has been stopped, the handling of a frame_ready event
\* that was still queued from its worker leaves the slot's frame buffer
\* empty and starts no dispatch, and the handling of a completion for the
\* slot leaves the slot's last result, the fault records and the relay
\* writes as they were.
C35_StoppedSlotQuiet ==
    [][/\ \A i \in Slots :
            (/\ i \in board_pending
             /\ i \notin board_pending'
             /\ i \notin DOMAIN board_camera_workers)
            => /\ board_images'[i] = board_images[i]
               /\ workers' = workers
       /\ (/\ agg_last'.seq # agg_last.seq
           /\ agg_last'.detector_type = "nail"
           /\ agg_last'.image_index \notin DOMAIN nail_camera_workers)
          => /\ nail_results' = nail_results
             /\ faults' = faults
             /\ relay_writes' = relay_writes
       /\ (/\ agg_last'.seq # agg_last.seq
           /\ agg_last'.detector_type = "board"
           /\ agg_last'.image_index \notin DOMAIN board_camera_workers)
          => /\ board_results' = board_results
             /\ faults' = faults
             /\ relay_writes' = relay_writes]_vars

(***************************************************************************)
(* Grab results and their release (SpecFrames)                             *)
(***************************************************************************)
\* C36: every grab result retrieved is released: when the grab thread of the
\* hardware-triggered worker is back at the test of its loop, and when a
\* tick of the timed worker has ended, the result retrieved last is not
\* held any more, whether the grab succeeded, was reported as failed or its
\* handling raised.
C36_ResultsReleased ==
    /\ hw_pc = "while" => hw_frames.result # "held"
    /\ wk["timed"].frames.result # "held"

(***************************************************************************)
(* Dispatches stay tracked while they run (SpecRun)                        *)
(***************************************************************************)
\* C37: no step removes from the tracked dispatches one that is still
\* running: each of them is in the tracked list after the step, running or
\* finished.
C37_RunningStayTracked ==
    [][\A k \in 1..Len(workers) :
          workers[k].running =>
             \E j \in 1..Len(workers') :
                /\ workers'[j].detector_type = workers[k].detector_type
                /\ workers'[j].images = workers[k].images
                /\ workers'[j].image_indices = workers[k].image_indices]_vars

\* C38: a pulse never leaves the relay energised: whenever trigger() has
\* written the on frame, it has written the off frame after it by the time
\* it returns.
C38_PulseEndsOff ==
    [][(/\ relay'.op = "trigger"
        /\ Len(relay'.written) > Len(relay.written))
          => relay'.written
                = relay.written \o <<<<160, 1, 1, 162>>, <<160, 1, 0, 161>>>>]_vars

(***************************************************************************)
(* One worker and one grab thread per board slot (Spec)                    *)
(***************************************************************************)
\* C39: a grab thread exists only for a board slot with a registered worker,
\* and the start of a board slot that has a registered worker, from its
\* button or from start-all, leaves the worker, the threads and the claims
\* of the slot as they were and reports no error.
C39_OneWorkerPerSlot ==
    /\ [](board_worker_threads \subseteq DOMAIN board_camera_workers)
    /\ [][\A i \in Slots :
            /\ (/\ gui_last' = [op |-> "start_board", slot |-> i]
                /\ i \in DOMAIN board_camera_workers)
               => (RegistrationsUnchanged /\ gui_errors' = <<>>)
            /\ (/\ run_btn = "start_all"
                /\ run_btn' = "stop_all"
                /\ i \in DOMAIN board_camera_workers)
               => /\ i \in DOMAIN board_camera_workers'
                  /\ board_camera_workers'[i] = board_camera_workers[i]
                  /\ (i \in board_worker_threads' <=> i \in board_worker_threads)
                  /\ Len(board_cameras') - Len(board_cameras)
                        = Cardinality(DOMAIN board_camera_workers'
                                          \ DOMAIN board_camera_workers)
                  /\ i \in DOMAIN nail_camera_workers
                        => \A k \in 1..Len(gui_errors') : gui_errors'[k][1] # i]_vars

\* The start button of board slot 0 was pressed while the slot had a worker
\* whose start() had failed: nothing was reported and the worker is as it
\* was.
C39_Witness ==
    /\ gui_last = [op |-> "start_board", slot |-> 0]
    /\ 0 \in DOMAIN board_camera_workers
    /\ ~board_camera_workers[0].running
    /\ 0 \in board_worker_threads
    /\ gui_errors = <<>>
=============================================================================
